---- MODULE Spec2Model ----
(***************************************************************************)
(* Model of the Bitcoin strategy backtesting engine (backtest.js):         *)
(* DataLoader, the Strategy classes and BacktestEngine.run.                *)
(*                                                                         *)
(* Numbers.  A JavaScript number is modelled as an exact rational, a pair  *)
(* <<n, d>> in lowest terms with d > 0.  The pair <<0, 0>> is null (and    *)
(* NaN, which the code treats the same way wherever it tests for it) and   *)
(* <<1, 0>> is Infinity.  Arithmetic is exact: IEEE-754 rounding is not    *)
(* modelled.                                                               *)
(*                                                                         *)
(* Dates.  A Date is the number of whole days since 1970-01-01 (all dates  *)
(* of a run are midnights of the same time zone, as in the test suite).    *)
(***************************************************************************)
EXTENDS Integers, Sequences, FiniteSets, TLC

\* ------------------------------------------------------------------------
\* Rational arithmetic
\* ------------------------------------------------------------------------
RECURSIVE Gcd(_, _)
Gcd(a, b) == IF b = 0 THEN a ELSE Gcd(b, a % b)

Abs(x) == IF x < 0 THEN -x ELSE x

Norm(n, d) ==
    IF n = 0 THEN <<0, 1>>
    ELSE LET g == Gcd(Abs(n), Abs(d))
             s == IF d < 0 THEN -1 ELSE 1
         IN  <<s * (n \div g), s * (d \div g)>>

Null == <<0, 0>>
Infinity == <<1, 0>>
Zero == <<0, 1>>
IsNull(x) == x = Null
IsFiniteNum(x) == x[2] > 0

R(n) == <<n, 1>>
Frac(n, d) == Norm(n, d)

RAdd(x, y) ==
    LET g == Gcd(x[2], y[2])
    IN  Norm(x[1] * (y[2] \div g) + y[1] * (x[2] \div g), (x[2] \div g) * y[2])
RNeg(x) == <<-x[1], x[2]>>
RSub(x, y) == RAdd(x, RNeg(y))
RMul(x, y) ==
    LET a == Norm(x[1], y[2])
        b == Norm(y[1], x[2])
    IN  Norm(a[1] * b[1], a[2] * b[2])
RInv(x) == IF x[1] < 0 THEN <<-x[2], -x[1]>> ELSE <<x[2], x[1]>>
RDiv(x, y) == RMul(x, RInv(y))
\* x < y, by whole parts first and then by the fractional remainders
RLt(x, y) ==
    LET qx == x[1] \div x[2]
        qy == y[1] \div y[2]
    IN  IF qx # qy THEN qx < qy
        ELSE (x[1] % x[2]) * y[2] < (y[1] % y[2]) * x[2]
RLe(x, y) == ~RLt(y, x)
RGt(x, y) == RLt(y, x)
RGe(x, y) == RLe(y, x)
RMin(x, y) == IF RLt(y, x) THEN y ELSE x
RMax(x, y) == IF RGt(y, x) THEN y ELSE x

\* The values of a JavaScript number that are no rational: NaN and the two
\* infinities. The operators below are +, * and / on all of them (Null, a
\* value that is missing or does not parse, behaves as NaN; the sign of a
\* zero is not kept: x / 0 takes the sign of x).
NaN == <<0, -1>>
NegInfinity == <<-1, 0>>
IsNaN(x) == x = NaN
Sign(x) == IF x[1] > 0 THEN 1 ELSE IF x[1] < 0 THEN -1 ELSE 0
SignedInfinity(s) == IF s > 0 THEN Infinity ELSE NegInfinity

JsAdd(x, y) ==
    IF x[2] > 0 /\ y[2] > 0 THEN RAdd(x, y)
    ELSE IF IsNaN(x) \/ IsNaN(y) \/ IsNull(x) \/ IsNull(y) THEN NaN
    ELSE IF x[2] = 0 /\ y[2] = 0 THEN (IF x = y THEN x ELSE NaN)
    ELSE IF x[2] = 0 THEN x
    ELSE y

JsMul(x, y) ==
    IF x[2] > 0 /\ y[2] > 0 THEN RMul(x, y)
    ELSE IF IsNaN(x) \/ IsNaN(y) \/ IsNull(x) \/ IsNull(y) THEN NaN
    ELSE IF x = Zero \/ y = Zero THEN NaN
    ELSE SignedInfinity(Sign(x) * Sign(y))

JsDiv(x, y) ==
    IF x[2] > 0 /\ y[2] > 0 /\ y # Zero THEN RDiv(x, y)
    ELSE IF IsNaN(x) \/ IsNaN(y) \/ IsNull(x) \/ IsNull(y) THEN NaN
    ELSE IF y = Zero THEN (IF x = Zero THEN NaN ELSE SignedInfinity(Sign(x)))
    ELSE IF y[2] = 0 THEN (IF x[2] = 0 THEN NaN ELSE Zero)
    ELSE SignedInfinity(Sign(x) * Sign(y))

RECURSIVE RPowInt(_, _)
RPowInt(x, k) == IF k = 0 THEN R(1) ELSE RMul(x, RPowInt(x, k - 1))

\* Math.pow(x, k) and x > y for a rational x >= 0, a whole k and a rational y
JsPow(x, k) == IF k >= 0 THEN RPowInt(x, k) ELSE JsDiv(R(1), RPowInt(x, -k))
JsGt(x, y) == x = Infinity \/ (IsFiniteNum(x) /\ RGt(x, y))

\* ------------------------------------------------------------------------
\* Dates (JavaScript Date restricted to whole days)
\* ------------------------------------------------------------------------
Civil(z0) ==
    LET z   == z0 + 719468
        era == z \div 146097
        doe == z - era * 146097
        yoe == (doe - doe \div 1460 + doe \div 36524 - doe \div 146096) \div 365
        doy == doe - (365 * yoe + yoe \div 4 - yoe \div 100)
        mp  == (5 * doy + 2) \div 153
        d   == doy - (153 * mp + 2) \div 5 + 1
        m   == IF mp < 10 THEN mp + 3 ELSE mp - 9
        y   == yoe + era * 400 + (IF m <= 2 THEN 1 ELSE 0)
    IN  [year |-> y, month |-> m - 1, day |-> d]

GetFullYear(date) == Civil(date).year
GetMonth(date) == Civil(date).month
GetDate(date) == Civil(date).day

\* new Date(year, month, day) with a 0-based month that may be 12 and a day
\* that may be 0 (the day before the first of the month)
NewDate(year, month, day) ==
    LET y0  == year + (month \div 12)
        m1  == (month % 12) + 1
        y   == IF m1 <= 2 THEN y0 - 1 ELSE y0
        era == y \div 400
        yoe == y - era * 400
        mp  == IF m1 > 2 THEN m1 - 3 ELSE m1 + 9
        doy == (153 * mp + 2) \div 5
        doe == yoe * 365 + yoe \div 4 - yoe \div 100 + doy
    IN  era * 146097 + doe - 719468 + (day - 1)

\* ------------------------------------------------------------------------
\* Configuration
\* ------------------------------------------------------------------------
GENESIS_DATE == NewDate(2009, 0, 3)
DCA_WINDOW == 200
DAYS_PER_MONTH == Frac(3044, 100)
PRICE_HISTORY_EXTRA == 100
DYNAMIC_HISTORY_MAX == 200
PEAK_WINDOW == 180
MIN_ANNUALIZE_DAYS == 365
ANNUALIZED_CAP == 1000000
DAYS_PER_YEAR == Frac(36525, 100)

\* ------------------------------------------------------------------------
\* The data files (btc_metrics.csv, btc_metadata.json) the loader reads.
\* A data set is numbered; its rows are laid out by the formulas below so
\* that every kind of row occurs: a missing day, a price of 0, an
\* unparseable price, rows without ratios.
\* ------------------------------------------------------------------------
NumDataSets == 2
HistoryDays == 42
HistFirstDate == NewDate(2020, 0, 24)
HistLastDate == HistFirstDate + HistoryDays - 1
CheapDate == NewDate(2020, 2, 4)

PriceTable == <<R(1), R(1), R(2), R(2), R(4), R(4), R(5), R(5)>>

CsvClosePrice(s, date) ==
    LET k == (date * 3 + s * 5) % 11
    IN  IF date = CheapDate /\ s % 2 = 1 THEN Frac(1, 65536)
        ELSE IF date = HistFirstDate \/ date = HistLastDate THEN R(2)
        ELSE IF k = 1 THEN Zero
        ELSE IF k = 10 THEN Null
        ELSE PriceTable[k - 1]

CsvHasRow(s, date) ==
    \/ date = HistFirstDate
    \/ date = HistLastDate
    \/ (date * 3 + s * 5) % 11 # 0

RatioDcaTable ==
    <<Null, Frac(1, 2), Frac(1, 2), Frac(3, 4), R(1), Frac(5, 4), R(1), R(1),
      Frac(5, 4), Frac(3, 2), R(2), Frac(3, 2)>>
RatioTrendTable ==
    <<Null, Frac(1, 4), Frac(1, 2), Frac(1, 2), Frac(1, 2), Frac(1, 2), Frac(3, 4),
      R(1), R(1), R(1), R(1), R(2)>>

CsvRow(s, date) ==
    LET j  == ((date * 7 + s) % 12) + 1
        rd == RatioDcaTable[j]
        rt == RatioTrendTable[j]
    IN  [date |-> date,
         close_price |-> CsvClosePrice(s, date),
         ahr999 |-> IF IsNull(rd) THEN Null ELSE RMul(rd, rt),
         ratio_dca |-> rd,
         ratio_trend |-> rt]

RECURSIVE CsvRowsFrom(_, _)
CsvRowsFrom(s, date) ==
    IF date > HistLastDate THEN <<>>
    ELSE IF CsvHasRow(s, date) THEN <<CsvRow(s, date)>> \o CsvRowsFrom(s, date + 1)
    ELSE CsvRowsFrom(s, date + 1)

CsvFile(s) == CsvRowsFrom(s, HistFirstDate)
MetadataFile(s) == [trend_a |-> IF s % 2 = 1 THEN R(2) ELSE Zero, trend_b |-> 0]

\* ------------------------------------------------------------------------
\* Data structures
\* ------------------------------------------------------------------------
DayData(date, price, ahr999, ratio_dca, ratio_trend) ==
    [date |-> date, price |-> price, ahr999 |-> ahr999,
     ratio_dca |-> ratio_dca, ratio_trend |-> ratio_trend]

NoDayData == [date |-> -1, price |-> Null, ahr999 |-> Null,
              ratio_dca |-> Null, ratio_trend |-> Null]

\* a variant that takes the value for the amount invested
PortfolioState_Swapped(date, cash, btc, invested, value) ==
    [date |-> date, cashBalance |-> cash, btcBalance |-> btc,
     totalInvested |-> value, portfolioValue |-> invested]

PortfolioState(date, cash, btc, invested, value) ==
    [date |-> date, cashBalance |-> cash, btcBalance |-> btc,
     totalInvested |-> invested, portfolioValue |-> value]

Transaction(date, investAmt, btcAmt, price, ahr999) ==
    [date |-> date, investAmount |-> investAmt, btcAmount |-> btcAmt,
     price |-> price, ahr999 |-> ahr999]

\* annualizedReturn is a number (form "number": 0, the linear value or
\* Infinity) or the geometric value (base ^ exponent - 1) * 100, which is
\* irrational in general and kept unevaluated (form "geometric").
Number(x) == [form |-> "number", num |-> x, base |-> Null, exponent |-> Null]
Geometric(base, exponent) ==
    [form |-> "geometric", num |-> Null, base |-> base, exponent |-> exponent]

BacktestResult ==
    [totalInvested |-> Zero,
     finalBtcBalance |-> Zero,
     finalPortfolioValue |-> Zero,
     totalReturn |-> Zero,
     annualizedReturn |-> Number(Zero),
     portfolioHistory |-> <<>>,
     transactions |-> <<>>,
     strategyName |-> "",
     startDate |-> -1,
     endDate |-> -1,
     durationDays |-> 0]

\* ------------------------------------------------------------------------
\* DataLoader
\* ------------------------------------------------------------------------
\* `loaded` stands for `this.historicalData && this.metadata` (both non-null)
NewDataLoader ==
    [historicalData |-> <<>>,
     metadata |-> [trend_a |-> Null, trend_b |-> 0],
     priceCache |-> <<>>,
     loaded |-> FALSE]

\* parseFloat of a field, then `val && !isNaN(val) ? val : null`
CacheField(v) == IF IsNull(v) \/ v = Zero THEN Null ELSE v

\* priceCache: one entry per row, keyed by the row's date string
BuildPriceCache(rows) ==
    [i \in 1..Len(rows) |->
        [key |-> rows[i].date,
         price |-> rows[i].close_price,
         ahr999 |-> CacheField(rows[i].ahr999),
         ratio_dca |-> CacheField(rows[i].ratio_dca),
         ratio_trend |-> CacheField(rows[i].ratio_trend)]]

CacheHas(dl, date) == \E i \in 1..Len(dl.priceCache) : dl.priceCache[i].key = date
\* Map.set keeps the last value written for a key
CacheGet(dl, date) ==
    LET hits == {i \in 1..Len(dl.priceCache) : dl.priceCache[i].key = date}
    IN  dl.priceCache[CHOOSE i \in hits : \A j \in hits : j <= i]

GetLastHistoricalDate(dl) == dl.historicalData[Len(dl.historicalData)].date

CalculatePowerLawPrice(dl, date) ==
    LET bitcoinAgeDays == date - GENESIS_DATE
    IN  RMul(dl.metadata.trend_a, RPowInt(R(bitcoinAgeDays), dl.metadata.trend_b))

\* a variant that extrapolates the trend on every date without a record
GetPriceData_Extrapolating(dl, date) ==
    IF CacheHas(dl, date)
    THEN LET cached == CacheGet(dl, date)
         IN  DayData(date, cached.price, cached.ahr999, cached.ratio_dca,
                     cached.ratio_trend)
    ELSE DayData(date, CalculatePowerLawPrice(dl, date), Null, Null, Null)

GetPriceData(dl, date) ==
    IF CacheHas(dl, date)
    THEN LET cached == CacheGet(dl, date)
         IN  DayData(date, cached.price, cached.ahr999, cached.ratio_dca,
                     cached.ratio_trend)
    ELSE IF date > GetLastHistoricalDate(dl)
    THEN DayData(date, CalculatePowerLawPrice(dl, date), Null, Null, Null)
    ELSE NoDayData

HasDayData(dayData) == dayData.date # -1

\* sum of 1 / seq[i] for i in from..to (exact, so the order of the additions
\* is immaterial; the range is halved to keep the recursion shallow)
RECURSIVE SumInverse(_, _, _)
SumInverse(seq, from, to) ==
    IF from > to THEN Zero
    ELSE IF from = to THEN JsDiv(R(1), seq[to])
    ELSE LET mid == (from + to) \div 2
         IN  JsAdd(SumInverse(seq, from, mid), SumInverse(seq, mid + 1, to))

CalculateAHR999(dl, date, priceHistory) ==
    IF Len(priceHistory) < DCA_WINDOW THEN Null
    ELSE LET n == Len(priceHistory)
             sumInverse == SumInverse(priceHistory, n - DCA_WINDOW + 1, n)
             dcaCost == JsDiv(R(DCA_WINDOW), sumInverse)
             trendValue == CalculatePowerLawPrice(dl, date)
             currentPrice == priceHistory[n]
             ratio_dca == JsDiv(currentPrice, dcaCost)
             ratio_trend == JsDiv(currentPrice, trendValue)
         IN  JsMul(ratio_dca, ratio_trend)

\* ratio_dca * ratio_trend of every row that has both (NaN rows are dropped)
RECURSIVE HistoricalAHR999From(_, _)
HistoricalAHR999From(rows, i) ==
    IF i > Len(rows) THEN <<>>
    ELSE IF IsNull(rows[i].ratio_dca) \/ IsNull(rows[i].ratio_trend)
         THEN HistoricalAHR999From(rows, i + 1)
         ELSE <<RMul(rows[i].ratio_dca, rows[i].ratio_trend)>>
              \o HistoricalAHR999From(rows, i + 1)

GetHistoricalAHR999Values(dl) == HistoricalAHR999From(dl.historicalData, 1)

RECURSIVE MaxOf(_, _, _)
MaxOf(seq, from, to) ==
    IF from = to THEN seq[to]
    ELSE LET mid == (from + to) \div 2
         IN  RMax(MaxOf(seq, from, mid), MaxOf(seq, mid + 1, to))

CalculatePeak180(dl, date, priceHistory) ==
    IF Len(priceHistory) = 0 THEN Null
    ELSE LET n == Len(priceHistory)
             first == IF n > PEAK_WINDOW THEN n - PEAK_WINDOW + 1 ELSE 1
         IN  MaxOf(priceHistory, first, n)

\* ------------------------------------------------------------------------
\* Utility functions
\* ------------------------------------------------------------------------
RECURSIVE InsertSorted(_, _)
InsertSorted(sorted, v) ==
    IF sorted = <<>> THEN <<v>>
    ELSE IF RLt(v, Head(sorted)) THEN <<v>> \o sorted
    ELSE <<Head(sorted)>> \o InsertSorted(Tail(sorted), v)

RECURSIVE SortAscending(_)
SortAscending(arr) ==
    IF arr = <<>> THEN <<>>
    ELSE InsertSorted(SortAscending(Tail(arr)), Head(arr))

\* a variant that does not sort the values first
GetPercentileValue_Unsorted(arr, percentile) ==
    LET index  == (percentile * Len(arr)) \div 100
        at     == IF index < Len(arr) - 1 THEN index ELSE Len(arr) - 1
    IN  arr[at + 1]

\* sorted[min(floor(percentile / 100 * length), length - 1)], 0-based
GetPercentileValue(arr, percentile) ==
    LET sorted == SortAscending(arr)
        index  == (percentile * Len(sorted)) \div 100
        at     == IF index < Len(sorted) - 1 THEN index ELSE Len(sorted) - 1
    IN  sorted[at + 1]

\* a variant that adds one day too many
AddDays_OneMore(date, days) == date + days + 1

AddDays(date, days) == date + days

NoDate == -1

\* a variant that does not take the first day for a month start
IsFirstDayOfMonth_NotFirstDay(date, prev) ==
    IF prev = NoDate THEN FALSE ELSE GetMonth(date) # GetMonth(prev)

IsFirstDayOfMonth(date, prev) ==
    IF prev = NoDate THEN TRUE ELSE GetMonth(date) # GetMonth(prev)

IsDayOfMonth(date, targetDay) == GetDate(date) = targetDay

RECURSIVE CountMonths(_, _, _, _)
CountMonths(year, month, endYear, endMonth) ==
    IF year > endYear \/ (year = endYear /\ month > endMonth) THEN 0
    ELSE 1 + (IF month = 11 THEN CountMonths(year + 1, 0, endYear, endMonth)
              ELSE CountMonths(year, month + 1, endYear, endMonth))

GetCompleteMonthsCount(startD, endD) ==
    CountMonths(GetFullYear(startD), GetMonth(startD),
                GetFullYear(endD), GetMonth(endD))

AHR999_DEFAULT_MULTIPLIERS ==
    [p10 |-> R(5), p25 |-> R(2), p50 |-> R(1), p75 |-> Zero, p90 |-> Zero,
     p100 |-> Zero]

\* ------------------------------------------------------------------------
\* Strategies.  One record shape for the four classes; a field a class
\* does not declare keeps its placeholder.
\* ------------------------------------------------------------------------
NoPercentiles == [p10 |-> Null, p25 |-> Null, p50 |-> Null, p75 |-> Null, p90 |-> Null]
NoMonth == <<-1, -1>>
MonthKey(date) == <<GetFullYear(date), GetMonth(date)>>

NoDynamicConfig ==
    [baseAmount |-> Null, minMultiplier |-> Null, maxMultiplier |-> Null,
     gamma |-> Zero, aLow |-> Null, aHigh |-> Null, enableDrawdownBoost |-> FALSE,
     enableMonthlyCap |-> FALSE, monthlyCap |-> Null]

\* class Strategy: constructor
Strategy(class, budget) ==
    [class |-> class,
     monthlyBudget |-> budget,
     cashBuffer |-> Zero,
     priceHistory |-> <<>>,
     dailyAmount |-> Null,
     dayOfMonth |-> 0,
     ahr999Percentiles |-> NoPercentiles,
     dailyBudget |-> Null,
     unlimitedBudget |-> FALSE,
     multipliers |-> AHR999_DEFAULT_MULTIPLIERS,
     config |-> NoDynamicConfig,
     monthSpent |-> Zero,
     currentMonth |-> NoMonth]

DailyDCAStrategy(budget) ==
    [Strategy("DailyDCAStrategy", budget) EXCEPT
        !.dailyAmount = RDiv(budget, DAYS_PER_MONTH)]

\* cfg.dayOfMonth = 0 stands for a config without dayOfMonth
MonthlyDCAStrategy(budget, cfg) ==
    [Strategy("MonthlyDCAStrategy", budget) EXCEPT
        !.dayOfMonth = IF cfg.dayOfMonth # 0 THEN cfg.dayOfMonth ELSE 1]

\* a variant that takes a given 0 for a missing value (`|| default`)
Configured_OrDefault(v, default) == IF IsNull(v) \/ v = Zero THEN default ELSE v

\* a multiplier of Null in cfg stands for `undefined`
Configured(v, default) == IF IsNull(v) THEN default ELSE v

\* a variant that takes a budget of 0 for a missing one (`|| 1000`)
AHR999PercentileStrategy_DefaultBudget(budget, cfg) ==
    [Strategy("AHR999PercentileStrategy", budget) EXCEPT
        !.dailyBudget = RDiv(IF budget = Zero THEN R(1000) ELSE budget, DAYS_PER_MONTH),
        !.unlimitedBudget = cfg.unlimitedBudget,
        !.multipliers =
            [p10  |-> Configured(cfg.multiplier_p10, AHR999_DEFAULT_MULTIPLIERS.p10),
             p25  |-> Configured(cfg.multiplier_p25, AHR999_DEFAULT_MULTIPLIERS.p25),
             p50  |-> Configured(cfg.multiplier_p50, AHR999_DEFAULT_MULTIPLIERS.p50),
             p75  |-> Configured(cfg.multiplier_p75, AHR999_DEFAULT_MULTIPLIERS.p75),
             p90  |-> Configured(cfg.multiplier_p90, AHR999_DEFAULT_MULTIPLIERS.p90),
             p100 |-> Configured(cfg.multiplier_p100, AHR999_DEFAULT_MULTIPLIERS.p100)]]

AHR999PercentileStrategy(budget, cfg) ==
    [Strategy("AHR999PercentileStrategy", budget) EXCEPT
        !.dailyBudget = RDiv(budget, DAYS_PER_MONTH),
        !.unlimitedBudget = cfg.unlimitedBudget,
        !.multipliers =
            [p10  |-> Configured(cfg.multiplier_p10, AHR999_DEFAULT_MULTIPLIERS.p10),
             p25  |-> Configured(cfg.multiplier_p25, AHR999_DEFAULT_MULTIPLIERS.p25),
             p50  |-> Configured(cfg.multiplier_p50, AHR999_DEFAULT_MULTIPLIERS.p50),
             p75  |-> Configured(cfg.multiplier_p75, AHR999_DEFAULT_MULTIPLIERS.p75),
             p90  |-> Configured(cfg.multiplier_p90, AHR999_DEFAULT_MULTIPLIERS.p90),
             p100 |-> Configured(cfg.multiplier_p100, AHR999_DEFAULT_MULTIPLIERS.p100)]]

\* the flags are always given in cfg (their default, true, is one of the
\* values); gamma is a whole number
DynamicAHR999Strategy(budget, cfg) ==
    [Strategy("DynamicAHR999Strategy", budget) EXCEPT
        !.config =
            [baseAmount |-> RDiv(budget, DAYS_PER_MONTH),
             minMultiplier |-> Configured(cfg.min_multiplier, Zero),
             maxMultiplier |-> Configured(cfg.max_multiplier, R(10)),
             gamma |-> Configured(cfg.gamma, R(2)),
             aLow |-> Configured(cfg.a_low, Frac(45, 100)),
             aHigh |-> Configured(cfg.a_high, R(1)),
             enableDrawdownBoost |-> cfg.enable_drawdown_boost,
             enableMonthlyCap |-> cfg.enable_monthly_cap,
             monthlyCap |-> Configured(cfg.monthly_cap, budget)]]

IsAHR999Family(st) ==
    st.class \in {"AHR999PercentileStrategy", "DynamicAHR999Strategy"}

GetName(st) ==
    CASE st.class = "DailyDCAStrategy" -> "Daily DCA"
      [] st.class = "MonthlyDCAStrategy" -> "Monthly DCA"
      [] st.class = "AHR999PercentileStrategy" -> "AHR999 Percentile"
      [] OTHER -> "Dynamic AHR999 (Advanced)"

\* initialize(), with each subclass's override
\* a variant that keeps the price window of the run before
Initialize_KeepsHistory(st, dl) ==
    LET base == [st EXCEPT !.cashBuffer = Zero]
    IN  CASE st.class = "AHR999PercentileStrategy" ->
                LET historicalAHR999 == GetHistoricalAHR999Values(dl)
                IN  [base EXCEPT !.ahr999Percentiles =
                        [p10 |-> GetPercentileValue(historicalAHR999, 10),
                         p25 |-> GetPercentileValue(historicalAHR999, 25),
                         p50 |-> GetPercentileValue(historicalAHR999, 50),
                         p75 |-> GetPercentileValue(historicalAHR999, 75),
                         p90 |-> GetPercentileValue(historicalAHR999, 90)]]
          [] st.class = "DynamicAHR999Strategy" ->
                [base EXCEPT !.monthSpent = Zero, !.currentMonth = NoMonth]
          [] OTHER -> base

Initialize(st, dl) ==
    LET base == [st EXCEPT !.cashBuffer = Zero, !.priceHistory = <<>>]
    IN  CASE st.class = "AHR999PercentileStrategy" ->
                LET historicalAHR999 == GetHistoricalAHR999Values(dl)
                IN  [base EXCEPT !.ahr999Percentiles =
                        [p10 |-> GetPercentileValue(historicalAHR999, 10),
                         p25 |-> GetPercentileValue(historicalAHR999, 25),
                         p50 |-> GetPercentileValue(historicalAHR999, 50),
                         p75 |-> GetPercentileValue(historicalAHR999, 75),
                         p90 |-> GetPercentileValue(historicalAHR999, 90)]]
          [] st.class = "DynamicAHR999Strategy" ->
                [base EXCEPT !.monthSpent = Zero, !.currentMonth = NoMonth,
                             !.priceHistory = <<>>]
          [] OTHER -> base

\* onMonthStart(date), with each subclass's override
OnMonthStart(st, date) ==
    CASE st.class = "DailyDCAStrategy" -> st
      [] st.class = "AHR999PercentileStrategy" -> st
      [] st.class = "DynamicAHR999Strategy" ->
            [st EXCEPT !.monthSpent = Zero, !.currentMonth = MonthKey(date)]
      [] OTHER -> [st EXCEPT !.cashBuffer = RAdd(st.cashBuffer, st.monthlyBudget)]

UpdatePriceHistory(st, price) ==
    LET pushed == Append(st.priceHistory, price)
    IN  [st EXCEPT !.priceHistory =
            IF Len(pushed) > DCA_WINDOW + PRICE_HISTORY_EXTRA THEN Tail(pushed)
            ELSE pushed]

GetCurrentAHR999(st, dl, date) == CalculateAHR999(dl, date, st.priceHistory)

\* the index the two AHR999 strategies work from: the record's own value,
\* or the one computed from the rolling window
CurrentIndex(st, dl, date, dayData) ==
    IF ~IsNull(dayData.ahr999) THEN dayData.ahr999
    ELSE GetCurrentAHR999(st, dl, date)

\* x < y for a finite y and an x that may be infinite
JsLt(x, y) == x = NegInfinity \/ (IsFiniteNum(x) /\ RLt(x, y))

\* a variant that takes a multiplier of 0 for a missing one (`|| 1`)
TierMultiplier_OrOne(st, ahr999) ==
    LET OrOne(m) == IF m = Zero THEN R(1) ELSE m
    IN  IF JsLt(ahr999, st.ahr999Percentiles.p10) THEN OrOne(st.multipliers.p10)
        ELSE IF JsLt(ahr999, st.ahr999Percentiles.p25) THEN OrOne(st.multipliers.p25)
        ELSE IF JsLt(ahr999, st.ahr999Percentiles.p50) THEN OrOne(st.multipliers.p50)
        ELSE IF JsLt(ahr999, st.ahr999Percentiles.p75) THEN OrOne(st.multipliers.p75)
        ELSE IF JsLt(ahr999, st.ahr999Percentiles.p90) THEN OrOne(st.multipliers.p90)
        ELSE OrOne(st.multipliers.p100)

TierMultiplier(st, ahr999) ==
    IF JsLt(ahr999, st.ahr999Percentiles.p10) THEN st.multipliers.p10
    ELSE IF JsLt(ahr999, st.ahr999Percentiles.p25) THEN st.multipliers.p25
    ELSE IF JsLt(ahr999, st.ahr999Percentiles.p50) THEN st.multipliers.p50
    ELSE IF JsLt(ahr999, st.ahr999Percentiles.p75) THEN st.multipliers.p75
    ELSE IF JsLt(ahr999, st.ahr999Percentiles.p90) THEN st.multipliers.p90
    ELSE st.multipliers.p100

PercentileAmount(st, ahr999) ==
    IF IsNull(ahr999) \/ IsNaN(ahr999) THEN Zero
    ELSE RMul(st.dailyBudget, TierMultiplier(st, ahr999))

PercentileShouldInvest(st, dl, date, price, dayData) ==
    PercentileAmount(st, CurrentIndex(st, dl, date, dayData))

CalculateCheapness(st, ahr999) ==
    IF IsNaN(ahr999) \/ IsNull(ahr999) THEN NaN
    ELSE IF ahr999 = Infinity THEN Zero
    ELSE IF ahr999 = NegInfinity THEN R(1)
    ELSE IF RLe(ahr999, st.config.aLow) THEN R(1)
    ELSE IF RGe(ahr999, st.config.aHigh) THEN Zero
    ELSE RDiv(RSub(st.config.aHigh, ahr999), RSub(st.config.aHigh, st.config.aLow))

CalculateBaseMultiplier(st, cheapness) ==
    JsAdd(st.config.minMultiplier,
          JsMul(RSub(st.config.maxMultiplier, st.config.minMultiplier),
                JsPow(cheapness, st.config.gamma[1])))

CalculateDrawdownBoost(st, price, peak180) ==
    IF ~st.config.enableDrawdownBoost \/ IsNull(peak180) \/ RLe(peak180, Zero)
    THEN R(1)
    ELSE LET drawdown == RDiv(RSub(peak180, price), peak180)
         IN  IF RLt(drawdown, Frac(20, 100)) THEN R(1)
             ELSE IF RLt(drawdown, Frac(35, 100)) THEN Frac(12, 10)
             ELSE IF RLt(drawdown, Frac(50, 100)) THEN Frac(15, 10)
             ELSE R(2)

CalculateFinalMultiplier(st, baseMultiplier, boostFactor) ==
    LET finalMultiplier == JsMul(baseMultiplier, boostFactor)
    IN  IF JsGt(finalMultiplier, st.config.maxMultiplier) THEN st.config.maxMultiplier
        ELSE finalMultiplier

ApplyMonthlyCap(st, buyAmount) ==
    IF ~st.config.enableMonthlyCap THEN buyAmount
    ELSE LET remaining == RSub(st.config.monthlyCap, st.monthSpent)
         IN  RMax(Zero, RMin(buyAmount, remaining))

\* steps 1 to 5 of DynamicAHR999Strategy.shouldInvest: the uncapped amount
DynamicBuyAmount(st, dl, date, price, ahr999) ==
    LET cheapness == CalculateCheapness(st, ahr999)
        baseMultiplier == CalculateBaseMultiplier(st, cheapness)
        peak180 == CalculatePeak180(dl, date, st.priceHistory)
        boostFactor ==
            CalculateDrawdownBoost(st, price, IF IsNull(peak180) THEN price ELSE peak180)
        finalMultiplier == CalculateFinalMultiplier(st, baseMultiplier, boostFactor)
    IN  JsMul(st.config.baseAmount, finalMultiplier)

\* a variant that never adds the amount to monthSpent
DynamicSpend_Untracked(st, buyAmount) == [amount |-> buyAmount, strategy |-> st]

\* step 6 and the update of monthSpent
DynamicSpend(st, buyAmount) ==
    [amount |-> buyAmount,
     strategy |-> IF st.config.enableMonthlyCap
                  THEN [st EXCEPT !.monthSpent = RAdd(st.monthSpent, buyAmount)]
                  ELSE st]

DynamicDecide(st, dl, date, price, ahr999) ==
    IF IsNull(ahr999) \/ IsNaN(ahr999) THEN [amount |-> Zero, strategy |-> st]
    ELSE DynamicSpend(st, ApplyMonthlyCap(st, DynamicBuyAmount(st, dl, date, price,
                                                                ahr999)))

\* the month check and the push onto priceHistory that open shouldInvest
DynamicEnter(st, date, price) ==
    LET monthKey == MonthKey(date)
        pushed == Append(st.priceHistory, price)
    IN  [st EXCEPT
            !.monthSpent = IF st.currentMonth # monthKey THEN Zero ELSE @,
            !.currentMonth = monthKey,
            !.priceHistory =
                IF Len(pushed) > DYNAMIC_HISTORY_MAX THEN Tail(pushed) ELSE pushed]

DynamicWithState(st, dl, date, price, dayData) ==
    DynamicDecide(st, dl, date, price, CurrentIndex(st, dl, date, dayData))

\* DynamicAHR999Strategy.shouldInvest: the amount and the strategy after it
DynamicShouldInvest(st, dl, date, price, dayData) ==
    DynamicWithState(DynamicEnter(st, date, price), dl, date, price, dayData)

\* shouldInvest(date, price, dayData) of each class
ShouldInvest(st, dl, date, price, dayData) ==
    CASE st.class = "DailyDCAStrategy" ->
            [amount |-> st.dailyAmount, strategy |-> st]
      [] st.class = "MonthlyDCAStrategy" ->
            [amount |-> IF IsDayOfMonth(date, st.dayOfMonth) THEN st.monthlyBudget
                        ELSE Zero,
             strategy |-> st]
      [] st.class = "AHR999PercentileStrategy" ->
            [amount |-> PercentileShouldInvest(st, dl, date, price, dayData),
             strategy |-> st]
      [] OTHER -> DynamicShouldInvest(st, dl, date, price, dayData)

\* ------------------------------------------------------------------------
\* State
\* ------------------------------------------------------------------------
VARIABLES
    csvFile,        \* which data set the data files hold
    dataLoader,     \* the DataLoader instance
    strategy,       \* the Strategy instance the engine was built with
    pc,             \* "idle" (not started), "running", "done"
    startDate, endDate, monthlyBudget,          \* arguments of run
    totalBudget, cashBalance, btcBalance, totalInvested,
    prevDate, monthsElapsed, currentDate,       \* locals of run
    result,         \* the BacktestResult being built
    day,            \* locals of the latest loop iteration
    ui,             \* the BacktestUI instance
    earlier,        \* the results of the earlier runs of this engine
    twin,           \* a second loader and strategy, fed another price history
    other           \* a second run on the same loader, while it is not stepping

vars == <<csvFile, dataLoader, strategy, pc, startDate, endDate, monthlyBudget,
          totalBudget, cashBalance, btcBalance, totalInvested, prevDate,
          monthsElapsed, currentDate, result, day, ui, earlier, twin, other>>

runVars == <<pc, startDate, endDate, monthlyBudget, totalBudget, cashBalance,
             btcBalance, totalInvested, prevDate, monthsElapsed, currentDate,
             result, day>>

NoDay ==
    [date |-> NoDate, monthStart |-> FALSE, credited |-> Zero, hasPrice |-> FALSE,
     price |-> Null, investAmount |-> Zero, limited |-> FALSE,
     budgetRemaining |-> Zero, cashBeforeTrade |-> Zero,
     actualInvestment |-> Zero, hasTransaction |-> FALSE, recorded |-> FALSE]

\* ------------------------------------------------------------------------
\* Inputs: the strategies that are constructed and the runs that are asked
\* ------------------------------------------------------------------------
StrategyBudgets == {Zero, R(761), R(1522)}

NoMultipliers ==
    [multiplier_p10 |-> Null, multiplier_p25 |-> Null, multiplier_p50 |-> Null,
     multiplier_p75 |-> Null, multiplier_p90 |-> Null, multiplier_p100 |-> Null,
     unlimitedBudget |-> FALSE]
AllMultipliers(v) ==
    [multiplier_p10 |-> v, multiplier_p25 |-> v, multiplier_p50 |-> v,
     multiplier_p75 |-> v, multiplier_p90 |-> v, multiplier_p100 |-> v,
     unlimitedBudget |-> FALSE]

PercentileConfigs ==
    {NoMultipliers,
     [NoMultipliers EXCEPT !.unlimitedBudget = TRUE],
     AllMultipliers(Zero),
     [AllMultipliers(Zero) EXCEPT !.unlimitedBudget = TRUE],
     [AllMultipliers(Zero) EXCEPT !.multiplier_p10 = R(90)],
     [AllMultipliers(R(1)) EXCEPT !.multiplier_p50 = Frac(1, 2)],
     [AllMultipliers(R(1)) EXCEPT !.unlimitedBudget = TRUE],
     AllMultipliers(R(-1))}

DefaultDynamic ==
    [min_multiplier |-> Null, max_multiplier |-> Null, gamma |-> Null, a_low |-> Null,
     a_high |-> Null, enable_drawdown_boost |-> TRUE, enable_monthly_cap |-> TRUE,
     monthly_cap |-> Null]

DynamicConfigs ==
    {DefaultDynamic,
     [DefaultDynamic EXCEPT !.enable_monthly_cap = FALSE],
     [DefaultDynamic EXCEPT !.enable_drawdown_boost = FALSE, !.gamma = R(1),
                            !.min_multiplier = Frac(1, 2), !.max_multiplier = R(3)],
     [DefaultDynamic EXCEPT !.enable_drawdown_boost = FALSE,
                            !.enable_monthly_cap = FALSE, !.gamma = R(1),
                            !.min_multiplier = R(1), !.a_low = R(1), !.a_high = R(1)]}

MonthlyConfigs == {[dayOfMonth |-> 0], [dayOfMonth |-> 4], [dayOfMonth |-> 31]}

StrategyInstances ==
    UNION {
        {DailyDCAStrategy(b)} \cup
        {MonthlyDCAStrategy(b, c) : c \in MonthlyConfigs} \cup
        {AHR999PercentileStrategy(b, c) : c \in PercentileConfigs} \cup
        {DynamicAHR999Strategy(b, c) : c \in DynamicConfigs}
        : b \in StrategyBudgets}

ShortRanges ==
    {<<NewDate(2020, 0, 28), NewDate(2020, 1, 3)>>,
     <<NewDate(2020, 0, 31), NewDate(2020, 2, 2)>>,
     <<NewDate(2020, 2, 5), NewDate(2020, 2, 12)>>,
     <<NewDate(2020, 0, 20), NewDate(2020, 0, 27)>>,
     <<NewDate(2020, 1, 15), NewDate(2020, 1, 15)>>,
     <<NewDate(2020, 1, 10), NewDate(2020, 1, 9)>>}

\* runs of a year or so: the shortest lasts one day less than a year
LongRunCount == 2
LongStartDate == NewDate(2020, 1, 20)
LongRanges ==
    {<<LongStartDate, LongStartDate + (MIN_ANNUALIZE_DAYS - 2) + k>> : k \in 0..(LongRunCount - 1)}

\* the long runs are asked of these strategies only
LongRunStrategy(st, s) ==
    /\ st.monthlyBudget = R(761)
    /\ \/ st.class = "DailyDCAStrategy" /\ s % 2 = 1
       \/ st.class = "MonthlyDCAStrategy" /\ st.dayOfMonth = 4 /\ s % 2 = 1
       \/ st.class = "AHR999PercentileStrategy"
            /\ st.multipliers.p100 = st.multipliers.p10
            /\ (s % 2 = 1) = (st.unlimitedBudget = (st.multipliers.p10 # Zero))
       \/ st.class = "DynamicAHR999Strategy" /\ s % 2 = 0
            /\ st.config.enableDrawdownBoost /\ st.config.enableMonthlyCap

\* <<startDate, endDate, monthlyBudget>> of the runs asked of a strategy
RunInputs(st, s) ==
    {<<r[1], r[2], b>> : r \in ShortRanges,
                         b \in IF st.monthlyBudget = Zero THEN {Zero}
                                ELSE IF st.monthlyBudget = R(761) THEN {R(761), R(1522)}
                                ELSE {R(761)}}
    \cup
    (IF LongRunStrategy(st, s)
     THEN {<<r[1], r[2], st.monthlyBudget>> : r \in LongRanges}
     ELSE {})

\* BacktestUI: what its constructor sets, and what the page shows
\* `error` is the error shown by the catch block; `returnedEarly` tells that
\* the latest invocation of runBacktest returned at `if (this.isRunning)`
NewBacktestUI ==
    [isRunning |-> FALSE, alert |-> "", displayed |-> FALSE, error |-> FALSE,
     returnedEarly |-> FALSE]

\* the values of the form: a budget of Null is a field that does not parse
FormBudgets == {Null, Zero, R(-761), R(761)}
FormInputs == {<<r[1], r[2], b>> : r \in ShortRanges, b \in FormBudgets}

\* no second loader and strategy; no second run
NoStrategy == Strategy("", Zero)
NoTwin == [dataLoader |-> NewDataLoader, strategy |-> NoStrategy, asked |-> FALSE,
           amount |-> Zero]
\* a second engine and strategy, constructed and not run
SecondRun(st) ==
    [strategy |-> st, pc |-> "idle", startDate |-> NoDate, endDate |-> NoDate,
     monthlyBudget |-> Zero, totalBudget |-> Zero, cashBalance |-> Zero,
     btcBalance |-> Zero, totalInvested |-> Zero, prevDate |-> NoDate,
     monthsElapsed |-> 0, currentDate |-> NoDate, result |-> BacktestResult,
     day |-> NoDay, isFirst |-> FALSE]

NoRun == [SecondRun(NoStrategy) EXCEPT !.pc = "none"]

\* ------------------------------------------------------------------------
\* Initial state: a DataLoader, a Strategy, a BacktestEngine and a
\* BacktestUI have been constructed; nothing is loaded and no run has
\* started.
\* ------------------------------------------------------------------------
ConstructedWith(instances) ==
    /\ csvFile \in 1..NumDataSets
    /\ dataLoader = NewDataLoader
    /\ strategy \in instances
    /\ pc = "idle"
    /\ startDate = NoDate
    /\ endDate = NoDate
    /\ monthlyBudget = Zero
    /\ totalBudget = Zero
    /\ cashBalance = Zero
    /\ btcBalance = Zero
    /\ totalInvested = Zero
    /\ prevDate = NoDate
    /\ monthsElapsed = 0
    /\ currentDate = NoDate
    /\ result = BacktestResult
    /\ day = NoDay
    /\ ui = NewBacktestUI
    /\ earlier = <<>>

Constructed == ConstructedWith(StrategyInstances)

Init ==
    /\ Constructed
    /\ twin = NoTwin
    /\ other = NoRun

\* DataLoader.load() on the files `rows` and `metadata`
\* the part of load() after its await: the files read are stored and the
\* cache is rebuilt
StoreFiles(dl, rows, metadata) ==
    [historicalData |-> rows,
     metadata |-> metadata,
     priceCache |-> BuildPriceCache(rows),
     loaded |-> TRUE]

LoadFiles(dl, rows, metadata) ==
    IF dl.loaded THEN dl
    ELSE StoreFiles(dl, rows, metadata)

LoadStep ==
    /\ dataLoader' = LoadFiles(dataLoader, CsvFile(csvFile), MetadataFile(csvFile))
    /\ UNCHANGED <<csvFile, strategy, ui, earlier>>
    /\ UNCHANGED runVars

Load == LoadStep /\ UNCHANGED <<twin, other>>

\* ------------------------------------------------------------------------
\* BacktestEngine.run
\* ------------------------------------------------------------------------
\* a variant that leaves the end date out of the count
DurationDays_Exclusive(startD, endD) == endD - startD

DurationDays(startD, endD) == (endD - startD) + 1

IsUnlimitedBudget(st) ==
    \/ st.class = "AHR999PercentileStrategy" /\ st.unlimitedBudget
    \/ st.class = "DynamicAHR999Strategy" /\ ~st.config.enableMonthlyCap

\* a variant that budgets every strategy by the days of the period
TotalBudget_ByDays(st, startD, endD, budget) ==
    RMul(R(DurationDays(startD, endD)), RDiv(budget, DAYS_PER_MONTH))

TotalBudget(st, startD, endD, budget) ==
    IF st.class = "DailyDCAStrategy"
    THEN RMul(R(DurationDays(startD, endD)), RDiv(budget, DAYS_PER_MONTH))
    ELSE IF \/ st.class = "AHR999PercentileStrategy" /\ ~st.unlimitedBudget
            \/ st.class = "DynamicAHR999Strategy" /\ st.config.enableMonthlyCap
    THEN RMul(R(DurationDays(startD, endD)), RDiv(budget, DAYS_PER_MONTH))
    ELSE RMul(R(GetCompleteMonthsCount(startD, endD)), budget)

\* run(startDate, endDate, monthlyBudget), up to the loop
StartRun(in) ==
    /\ startDate' = in[1]
    /\ endDate' = in[2]
    /\ monthlyBudget' = in[3]
    /\ result' = [BacktestResult EXCEPT
                      !.strategyName = GetName(strategy),
                      !.startDate = in[1],
                      !.endDate = in[2],
                      !.durationDays = DurationDays(in[1], in[2])]
    /\ totalBudget' = TotalBudget(strategy, in[1], in[2], in[3])
    /\ currentDate' = in[1]
    /\ strategy' = Initialize(strategy, dataLoader)
    /\ cashBalance' = Zero
    /\ btcBalance' = Zero
    /\ totalInvested' = Zero
    /\ prevDate' = NoDate
    /\ monthsElapsed' = 0
    /\ day' = NoDay
    /\ pc' = "running"

\* run is called directly (as the test suite does, without a BacktestUI)
RunBegin ==
    /\ pc = "idle"
    /\ dataLoader.loaded
    /\ ui = NewBacktestUI
    /\ \E in \in RunInputs(strategy, csvFile) : StartRun(in)
    /\ UNCHANGED <<csvFile, dataLoader, ui, earlier, twin, other>>

\* run() called again on the same BacktestEngine, with the same Strategy
\* object and the same arguments, once the first call has returned
Rerun ==
    /\ pc = "done"
    /\ ui = NewBacktestUI
    /\ earlier = <<>>
    /\ earlier' = <<result>>
    /\ StartRun(<<startDate, endDate, monthlyBudget>>)
    /\ UNCHANGED <<csvFile, dataLoader, ui, twin, other>>

\* a variant that does not compare the dates
ValidationAlert_NoDateCheck(form) ==
    IF IsNull(form[3]) \/ form[3] = Zero THEN "Please fill in all required fields"
    ELSE IF RLe(form[3], Zero) THEN "Monthly budget must be greater than 0"
    ELSE ""

\* BacktestUI.runBacktest, "Validate inputs": the alert, "" if there is none
ValidationAlert(form) ==
    IF IsNull(form[3]) \/ form[3] = Zero THEN "Please fill in all required fields"
    ELSE IF form[1] >= form[2] THEN "End date must be after start date"
    ELSE IF RLe(form[3], Zero) THEN "Monthly budget must be greater than 0"
    ELSE ""

\* BacktestUI.runBacktest, up to the loop of run: the strategy is the one
\* built from the form (its monthlyBudget is the budget of the form)
Submit(form, alert) ==
    IF alert # ""
    THEN /\ ui' = [NewBacktestUI EXCEPT !.alert = alert]
         /\ UNCHANGED strategy
         /\ UNCHANGED runVars
    ELSE /\ strategy.monthlyBudget = form[3]
         /\ StartRun(form)
         /\ ui' = [NewBacktestUI EXCEPT !.isRunning = TRUE]

RunBacktest ==
    /\ pc = "idle"
    /\ dataLoader.loaded
    /\ ~ui.isRunning
    /\ \E form \in FormInputs : Submit(form, ValidationAlert(form))
    /\ UNCHANGED <<csvFile, dataLoader, earlier, twin, other>>

\* a variant that credits the monthly budget to the AHR999 strategies too
MonthCredit_Everyone(st, date, startD, endD, budget) ==
    IF st.class = "DailyDCAStrategy"
    THEN LET monthEnd == NewDate(GetFullYear(date), GetMonth(date) + 1, 0)
             periodStart == IF date > startD THEN date ELSE startD
             periodEnd == IF endD < monthEnd THEN endD ELSE monthEnd
             daysInPeriod == (periodEnd - periodStart) + 1
         IN  RMul(RDiv(R(daysInPeriod), DAYS_PER_MONTH), budget)
    ELSE budget

\* a variant that credits Fixed-Daily for the whole calendar month
MonthCredit_WholeMonth(st, date, startD, endD, budget) ==
    IF st.class = "DailyDCAStrategy"
    THEN LET monthStart == NewDate(GetFullYear(date), GetMonth(date), 1)
             monthEnd == NewDate(GetFullYear(date), GetMonth(date) + 1, 0)
             daysInPeriod == (monthEnd - monthStart) + 1
         IN  RMul(RDiv(R(daysInPeriod), DAYS_PER_MONTH), budget)
    ELSE IF IsAHR999Family(st) THEN Zero
    ELSE budget

\* the cash credited at a month start
MonthCredit(st, date, startD, endD, budget) ==
    IF st.class = "DailyDCAStrategy"
    THEN LET monthEnd == NewDate(GetFullYear(date), GetMonth(date) + 1, 0)
             periodStart == IF date > startD THEN date ELSE startD
             periodEnd == IF endD < monthEnd THEN endD ELSE monthEnd
             daysInPeriod == (periodEnd - periodStart) + 1
         IN  RMul(RDiv(R(daysInPeriod), DAYS_PER_MONTH), budget)
    ELSE IF IsAHR999Family(st) THEN Zero
    ELSE budget

\* a variant without the budget constraint
ActualInvestment_Uncapped(st, investAmount, budget, invested) == investAmount

\* a variant that constrains the unlimited mode too
ActualInvestment_AlwaysCapped(st, investAmount, budget, invested) ==
    RMin(investAmount, RMax(Zero, RSub(budget, invested)))

\* a variant that limits a day by the budget of the days up to it
ActualInvestment_Accrued(st, investAmount, budget, invested) ==
    IF IsUnlimitedBudget(st) THEN investAmount
    ELSE LET accrued == RMul(R((currentDate - startDate) + 1),
                             RDiv(monthlyBudget, DAYS_PER_MONTH))
         IN  RMin(investAmount, RMax(Zero, RSub(RMin(budget, accrued), invested)))

ActualInvestment(st, investAmount, budget, invested) ==
    IF IsUnlimitedBudget(st) THEN investAmount
    ELSE RMin(investAmount, RMax(Zero, RSub(budget, invested)))

PortfolioValue(st, cash, btc, price) ==
    IF IsAHR999Family(st) THEN RMul(btc, price)
    ELSE RAdd(cash, RMul(btc, price))

\* a variant that multiplies by the price
BtcBought_Multiplied(actualInvestment, price) == RMul(actualInvestment, price)

BtcBought(actualInvestment, price) == RDiv(actualInvestment, price)

\* the trade of a day with a valid price and the snapshot that follows it
\* a variant that samples the history every 7 days and on the end date only
ShouldRecord_SamplesOnly(isSamplingDay, hasTransaction, isEndDate) ==
    isSamplingDay \/ isEndDate

\* `if (isSamplingDay || hasTransaction || isEndDate)`
ShouldRecord(isSamplingDay, hasTransaction, isEndDate) ==
    isSamplingDay \/ hasTransaction \/ isEndDate

Settle(st, decision, actualInvestment, cash1, price, dayData, monthStart, credit) ==
    LET hasTransaction == RGt(actualInvestment, Zero)
        btcBought == BtcBought(actualInvestment, price)
        btc2 == IF hasTransaction THEN RAdd(btcBalance, btcBought) ELSE btcBalance
        invested2 == IF hasTransaction THEN RAdd(totalInvested, actualInvestment)
                     ELSE totalInvested
        cash2 == IF hasTransaction /\ ~IsAHR999Family(st)
                 THEN RSub(cash1, actualInvestment)
                 ELSE cash1
        daysSinceStart == currentDate - startDate
        isSamplingDay == daysSinceStart % 7 = 0
        isEndDate == currentDate = endDate
        record == ShouldRecord(isSamplingDay, hasTransaction, isEndDate)
    IN  /\ strategy' = decision.strategy
        /\ btcBalance' = btc2
        /\ totalInvested' = invested2
        /\ cashBalance' = cash2
        /\ result' =
              [result EXCEPT
                 !.transactions =
                     IF hasTransaction
                     THEN Append(@, Transaction(currentDate, actualInvestment,
                                                btcBought, price, dayData.ahr999))
                     ELSE @,
                 !.portfolioHistory =
                     IF record
                     THEN Append(@, PortfolioState(currentDate, cash2, btc2, invested2,
                                                   PortfolioValue(st, cash2, btc2,
                                                                  price)))
                     ELSE @]
        /\ day' = [date |-> currentDate,
                   monthStart |-> monthStart,
                   credited |-> credit,
                   hasPrice |-> TRUE,
                   price |-> price,
                   investAmount |-> decision.amount,
                   limited |-> RGt(decision.amount, Zero) /\ ~IsUnlimitedBudget(st),
                   budgetRemaining |-> RSub(totalBudget, totalInvested),
                   cashBeforeTrade |-> cash1,
                   actualInvestment |-> actualInvestment,
                   hasTransaction |-> hasTransaction,
                   recorded |-> record]

\* `if (investAmount > 0) { ... }`: the amount that is executed
Execute(st, decision, cash1, price, dayData, monthStart, credit) ==
    Settle(st, decision,
           IF RGt(decision.amount, Zero)
           THEN ActualInvestment(st, decision.amount, totalBudget, totalInvested)
           ELSE Zero,
           cash1, price, dayData, monthStart, credit)

\* a variant that tests `if (dayData)` only
Trade_AnyRecord(s1, cash1, dayData, monthStart, credit) ==
    IF HasDayData(dayData) /\ ~IsNull(dayData.price)
    THEN Execute(strategy,
                 ShouldInvest(UpdatePriceHistory(s1, dayData.price), dataLoader,
                              currentDate, dayData.price, dayData),
                 cash1, dayData.price, dayData, monthStart, credit)
    ELSE /\ strategy' = s1
         /\ cashBalance' = cash1
         /\ day' = [NoDay EXCEPT !.date = currentDate,
                                 !.monthStart = monthStart,
                                 !.credited = credit,
                                 !.cashBeforeTrade = cash1]
         /\ UNCHANGED <<btcBalance, totalInvested, result>>

\* the body of `if (dayData && dayData.price > 0)`, and the day without it
Trade(s1, cash1, dayData, monthStart, credit) ==
    IF HasDayData(dayData) /\ ~IsNull(dayData.price) /\ RGt(dayData.price, Zero)
    THEN Execute(strategy,
                 ShouldInvest(UpdatePriceHistory(s1, dayData.price), dataLoader,
                              currentDate, dayData.price, dayData),
                 cash1, dayData.price, dayData, monthStart, credit)
    ELSE /\ strategy' = s1
         /\ cashBalance' = cash1
         /\ day' = [NoDay EXCEPT !.date = currentDate,
                                 !.monthStart = monthStart,
                                 !.credited = credit,
                                 !.cashBeforeTrade = cash1]
         /\ UNCHANGED <<btcBalance, totalInvested, result>>

\* `if (isFirstDayOfMonth(currentDate, prevDate)) { ... }`
MonthStartStep(monthStart) ==
    /\ monthsElapsed' = IF monthStart THEN monthsElapsed + 1 ELSE monthsElapsed
    /\ IF monthStart
       THEN Trade(OnMonthStart(strategy, currentDate),
                  RAdd(cashBalance,
                       MonthCredit(strategy, currentDate, startDate, endDate,
                                   monthlyBudget)),
                  GetPriceData(dataLoader, currentDate), TRUE,
                  MonthCredit(strategy, currentDate, startDate, endDate, monthlyBudget))
       ELSE Trade(strategy, cashBalance, GetPriceData(dataLoader, currentDate), FALSE,
                  Zero)

\* a variant in which getPriceData keeps the price it computed for a day
\* after the last record, as a record of the store
StoreAfterDay_Memoising(dl, date) ==
    IF date > GetLastHistoricalDate(dl)
    THEN LET row == [date |-> date, close_price |-> CalculatePowerLawPrice(dl, date),
                     ahr999 |-> Null, ratio_dca |-> Null, ratio_trend |-> Null]
         IN  [dl EXCEPT !.historicalData = Append(@, row)]
    ELSE dl

\* The price store after the calls a day makes on it (getPriceData,
\* calculateAHR999, getHistoricalAHR999Values, calculatePeak180): none of
\* them assigns to historicalData, metadata or priceCache.
StoreAfterDay(dl, date) == dl

\* one iteration of `while (currentDate <= endDate)`
DayStep ==
    /\ pc = "running"
    /\ currentDate <= endDate
    /\ MonthStartStep(IsFirstDayOfMonth(currentDate, prevDate))
    /\ prevDate' = currentDate
    /\ currentDate' = AddDays(currentDate, 1)
    /\ dataLoader' = StoreAfterDay(dataLoader, currentDate)
    /\ UNCHANGED <<csvFile, pc, startDate, endDate, monthlyBudget,
                   totalBudget, ui, earlier>>

RunDay == DayStep /\ UNCHANGED <<twin, other>>

\* getPriceData(endDate)?.price || 0
FinalPrice(dl, endD) ==
    LET dayData == GetPriceData(dl, endD)
    IN  IF HasDayData(dayData) /\ ~IsNull(dayData.price) THEN dayData.price ELSE Zero

\* a variant without the `totalInvested === 0` case
FinalPortfolioValue_Unchecked(st, invested, cash, btc, finalPrice) ==
    IF IsAHR999Family(st) THEN RMul(btc, finalPrice)
    ELSE RAdd(cash, RMul(btc, finalPrice))

FinalPortfolioValue(st, invested, cash, btc, finalPrice) ==
    IF invested = Zero THEN Zero
    ELSE IF IsAHR999Family(st) THEN RMul(btc, finalPrice)
    ELSE RAdd(cash, RMul(btc, finalPrice))

\* The outcomes of `isFinite(annualized) && annualized < 1000000` for
\* annualized = (returnRatio ^ (365.25 / durationDays) - 1) * 100 and
\* returnRatio > 0, i.e. of returnRatio ^ e < 10001 with e = 365.25 / days.
\* The power is not rational; the test is decided where a bound decides it
\* (x ^ e <= 1 for x <= 1; x ^ e <= x for e <= 1 < x; x ^ e >= x for
\* e >= 1, x >= 1; x ^ e <= x ^ 2 for e <= 2, x >= 1) and left open elsewhere.
GeometricAccepted(returnRatio, durationDays) ==
    LET limit == R((ANNUALIZED_CAP \div 100) + 1)
        eLe1  == RLe(DAYS_PER_YEAR, R(durationDays))
        eGe1  == RGe(DAYS_PER_YEAR, R(durationDays))
        eLe2  == RLe(DAYS_PER_YEAR, R(2 * durationDays))
    IN  IF RLe(returnRatio, R(1)) THEN {TRUE}
        ELSE IF eLe1 /\ RLt(returnRatio, limit) THEN {TRUE}
        ELSE IF eGe1 /\ RGe(returnRatio, limit) THEN {FALSE}
        ELSE IF eLe2 /\ RLe(returnRatio, R(100)) THEN {TRUE}
        ELSE BOOLEAN

\* a variant that tests the duration before the invested total
AnnualizedReturns_DurationFirst(invested, finalValue, totalReturn, durationDays) ==
    IF durationDays < MIN_ANNUALIZE_DAYS THEN {Number(Infinity)}
    ELSE IF ~RGt(invested, Zero) THEN {Number(Zero)}
    ELSE LET returnRatio == RDiv(finalValue, invested)
             yearsElapsed == RDiv(R(durationDays), DAYS_PER_YEAR)
             linear == Number(RDiv(totalReturn, yearsElapsed))
         IN  IF RGt(returnRatio, Zero) /\ RGt(yearsElapsed, Zero)
             THEN {IF ok THEN Geometric(returnRatio, RInv(yearsElapsed)) ELSE linear
                   : ok \in GeometricAccepted(returnRatio, durationDays)}
             ELSE {linear}

\* a variant that annualizes a run of any length
AnnualizedReturns_AnyDuration(invested, finalValue, totalReturn, durationDays) ==
    IF ~RGt(invested, Zero) THEN {Number(Zero)}
    ELSE IF durationDays > 0
    THEN LET returnRatio == RDiv(finalValue, invested)
             yearsElapsed == RDiv(R(durationDays), DAYS_PER_YEAR)
             linear == Number(RDiv(totalReturn, yearsElapsed))
         IN  IF RGt(returnRatio, Zero) /\ RGt(yearsElapsed, Zero)
             THEN {IF ok THEN Geometric(returnRatio, RInv(yearsElapsed)) ELSE linear
                   : ok \in GeometricAccepted(returnRatio, durationDays)}
             ELSE {linear}
    ELSE {Number(Infinity)}

\* the values `result.annualizedReturn` can be given
AnnualizedReturns(invested, finalValue, totalReturn, durationDays) ==
    IF ~RGt(invested, Zero) THEN {Number(Zero)}
    ELSE IF durationDays >= MIN_ANNUALIZE_DAYS
    THEN LET returnRatio == RDiv(finalValue, invested)
             yearsElapsed == RDiv(R(durationDays), DAYS_PER_YEAR)
             linear == Number(RDiv(totalReturn, yearsElapsed))
         IN  IF RGt(returnRatio, Zero) /\ RGt(yearsElapsed, Zero)
             THEN {IF ok THEN Geometric(returnRatio, RInv(yearsElapsed)) ELSE linear
                   : ok \in GeometricAccepted(returnRatio, durationDays)}
             ELSE {linear}
    ELSE {Number(Infinity)}

TotalReturn(invested, finalValue, before) ==
    IF RGt(invested, Zero)
    THEN RMul(RDiv(RSub(finalValue, invested), invested), R(100))
    ELSE before

\* Math.pow is a function: called again with the arguments of the earlier
\* run it returns what it returned then
SamePower(outcomes, invested, finalValue, durationDays) ==
    IF /\ earlier # <<>>
       /\ earlier[1].totalInvested = invested
       /\ earlier[1].finalPortfolioValue = finalValue
       /\ earlier[1].durationDays = durationDays
    THEN outcomes \cap {earlier[1].annualizedReturn}
    ELSE outcomes

Summarize(finalValue, totalReturn) ==
    \E annualized \in SamePower(AnnualizedReturns(totalInvested, finalValue,
                                                  totalReturn, result.durationDays),
                                totalInvested, finalValue, result.durationDays) :
        result' = [result EXCEPT
                      !.totalInvested = totalInvested,
                      !.finalBtcBalance = btcBalance,
                      !.finalPortfolioValue = finalValue,
                      !.totalReturn = totalReturn,
                      !.annualizedReturn = annualized]

SummarizeValue(finalValue) ==
    Summarize(finalValue, TotalReturn(totalInvested, finalValue, result.totalReturn))

\* run, after the loop: the summary
\* the end of run, leaving the BacktestUI as uiAfter
FinishWith(uiAfter) ==
    /\ pc = "running"
    /\ currentDate > endDate
    /\ SummarizeValue(FinalPortfolioValue(strategy, totalInvested, cashBalance,
                                          btcBalance,
                                          FinalPrice(dataLoader, endDate)))
    /\ pc' = "done"
    /\ ui' = uiAfter
    /\ UNCHANGED <<csvFile, dataLoader, strategy, startDate, endDate, monthlyBudget,
                   totalBudget, cashBalance, btcBalance, totalInvested, prevDate,
                   monthsElapsed, currentDate, day, earlier>>

\* the end of run and, when runBacktest called it, displayResults and the
\* finally block
FinishStep == FinishWith([ui EXCEPT !.isRunning = FALSE, !.displayed = ui.isRunning])

RunFinish == FinishStep /\ UNCHANGED <<twin, other>>

Next == Load \/ RunBegin \/ RunBacktest \/ RunDay \/ RunFinish \/ Rerun

Spec == Init /\ [][Next]_vars

\* ------------------------------------------------------------------------
\* Two price histories. Next to the loader and strategy of the run, a second
\* loader reads a file that has the same records up to ForkDate and other
\* prices and ratios after it; a second strategy of the same configuration
\* is given the calls the engine makes (initialize, onMonthStart,
\* updatePriceHistory, shouldInvest) with the second loader's data.
\* ------------------------------------------------------------------------
ForkDate == NewDate(2020, 1, 10)

TwinRow(row) ==
    IF row.date <= ForkDate THEN row
    ELSE LET rd == IF IsNull(row.ratio_dca) THEN Null
                   ELSE RDiv(row.ratio_dca, R(8))
         IN  [row EXCEPT
                 !.close_price = IF IsNull(@) THEN @ ELSE RAdd(@, R(1)),
                 !.ratio_dca = rd,
                 !.ahr999 = IF IsNull(rd) THEN Null ELSE RMul(rd, row.ratio_trend)]

TwinCsvFile(s) == [i \in 1..Len(CsvFile(s)) |-> TwinRow(CsvFile(s)[i])]

NewTwin(st) ==
    [dataLoader |-> NewDataLoader, strategy |-> st, asked |-> FALSE, amount |-> Zero]

\* the strategy calls of one loop iteration (part of `run`), on the second
\* loader and strategy
TwinAsk(tw, date, prev) ==
    LET s1 == IF IsFirstDayOfMonth(date, prev) THEN OnMonthStart(tw.strategy, date)
              ELSE tw.strategy
        dayData == GetPriceData(tw.dataLoader, date)
    IN  IF HasDayData(dayData) /\ ~IsNull(dayData.price) /\ RGt(dayData.price, Zero)
        THEN LET decision == ShouldInvest(UpdatePriceHistory(s1, dayData.price),
                                          tw.dataLoader, date, dayData.price, dayData)
             IN  [tw EXCEPT !.strategy = decision.strategy,
                            !.asked = TRUE,
                            !.amount = decision.amount]
        ELSE [tw EXCEPT !.strategy = s1, !.asked = FALSE, !.amount = Zero]

TwinInit ==
    /\ Constructed
    /\ twin = NewTwin(strategy)
    /\ other = NoRun

TwinLoad ==
    /\ LoadStep
    /\ twin' = [twin EXCEPT !.dataLoader =
                    LoadFiles(@, TwinCsvFile(csvFile), MetadataFile(csvFile))]
    /\ UNCHANGED other

TwinBegin ==
    /\ pc = "idle"
    /\ dataLoader.loaded
    /\ \E r \in ShortRanges : StartRun(<<r[1], r[2], strategy.monthlyBudget>>)
    /\ twin' = [twin EXCEPT !.strategy = Initialize(@, twin.dataLoader)]
    /\ UNCHANGED <<csvFile, dataLoader, ui, earlier, other>>

TwinDay ==
    /\ DayStep
    /\ twin' = TwinAsk(twin, currentDate, prevDate)
    /\ UNCHANGED other

TwinFinish == FinishStep /\ UNCHANGED <<twin, other>>

TwinNext == TwinLoad \/ TwinBegin \/ TwinDay \/ TwinFinish

TwinSpec == TwinInit /\ [][TwinNext]_vars

\* ------------------------------------------------------------------------
\* Runs long enough to fill the 200-day window: the two AHR999 strategies
\* over DCA_WINDOW + 30 days that begin inside the records and go on after
\* the last record, where getPriceData gives the power-law price and no index
\* ------------------------------------------------------------------------
\* a dynamic strategy whose request shows the boost on every day: it asks
\* for at least twice baseAmount, and no monthly cap hides the factor
BoostedDynamic ==
    [DefaultDynamic EXCEPT !.min_multiplier = R(2), !.gamma = R(1),
                           !.enable_monthly_cap = FALSE]

WindowStrategies ==
    {st \in StrategyInstances : IsAHR999Family(st) /\ st.monthlyBudget = R(761)}
    \cup {DynamicAHR999Strategy(R(761), BoostedDynamic)}

WindowInit ==
    /\ ConstructedWith(WindowStrategies)
    /\ twin = NoTwin
    /\ other = NoRun

WindowBegin ==
    /\ pc = "idle"
    /\ dataLoader.loaded
    /\ csvFile % 2 = 1
    /\ StartRun(<<LongStartDate, LongStartDate + DCA_WINDOW + 30, strategy.monthlyBudget>>)
    /\ UNCHANGED <<csvFile, dataLoader, ui, earlier, twin, other>>

WindowNext == Load \/ WindowBegin \/ RunDay \/ RunFinish

WindowSpec == WindowInit /\ [][WindowNext]_vars

\* ------------------------------------------------------------------------
\* The engine alone, on the short periods. `run` is a synchronous loop: once
\* it is called, the next iteration, and after the last one the summary, is
\* always executed; this is the fairness of LoopSpec.
\* ------------------------------------------------------------------------
LoopBegin ==
    /\ pc = "idle"
    /\ dataLoader.loaded
    /\ \E r \in ShortRanges : StartRun(<<r[1], r[2], strategy.monthlyBudget>>)
    /\ UNCHANGED <<csvFile, dataLoader, ui, earlier, twin, other>>

LoopNext == Load \/ LoopBegin \/ RunDay \/ RunFinish

\* The loop is sequential code: while it is running, its next iteration or its
\* exit happens. Both change <<pc, currentDate>>, and one of them is possible
\* in every running state (the body of the loop has no blocking call).
LoopProgress ==
    /\ pc = "running"
    /\ \/ pc' = "running" /\ currentDate' = AddDays(currentDate, 1)
       \/ pc' = "done" /\ currentDate' = currentDate

LoopSpec == Init /\ [][LoopNext]_vars /\ WF_<<pc, currentDate>>(LoopProgress)

\* ------------------------------------------------------------------------
\* Any index column. The data file is written for a series of index values:
\* one record a day from HistFirstDate on, each with a price of 2 and with
\* ratio_dca * ratio_trend = ahr999 = the value of the series. The series
\* are the four values below, each repeated up to MaxRepeat times, in
\* ascending and in descending order. The percentile strategy is run over
\* the records and one day more.
\* ------------------------------------------------------------------------
MaxRepeat == 3
IndexValues == <<Frac(1, 2), R(1), Frac(3, 2), R(2)>>

Repeat(v, k) == [i \in 1..k |-> v]
Reverse(seq) == [i \in 1..Len(seq) |-> seq[Len(seq) + 1 - i]]

IndexSeries ==
    LET Ascending(c) ==
            Repeat(IndexValues[1], c[1]) \o Repeat(IndexValues[2], c[2])
            \o Repeat(IndexValues[3], c[3]) \o Repeat(IndexValues[4], c[4])
    IN  UNION {{Ascending(c), Reverse(Ascending(c))} :
                   c \in [1..4 -> 0..MaxRepeat]} \ {<<>>}

SeriesRows(series) ==
    [i \in 1..Len(series) |->
        [date |-> HistFirstDate + i - 1,
         close_price |-> R(2),
         ahr999 |-> series[i],
         ratio_dca |-> series[i],
         ratio_trend |-> R(1)]]

SeriesStrategies ==
    {st \in StrategyInstances :
        st.class = "AHR999PercentileStrategy" /\ st.monthlyBudget = R(761)}

\* the metadata file is that of data set 1 (a trend price of 2)
SeriesInit ==
    /\ ConstructedWith(SeriesStrategies)
    /\ csvFile = 1
    /\ twin = NoTwin
    /\ other = NoRun

\* load() on the file of any of the series (a loader that has loaded returns
\* before it reads anything)
SeriesLoad ==
    /\ IF dataLoader.loaded
       THEN dataLoader' = LoadFiles(dataLoader, <<>>, MetadataFile(csvFile))
       ELSE \E series \in IndexSeries :
               dataLoader' = LoadFiles(dataLoader, SeriesRows(series),
                                       MetadataFile(csvFile))
    /\ UNCHANGED <<csvFile, strategy, ui, earlier, twin, other>>
    /\ UNCHANGED runVars

SeriesBegin ==
    /\ pc = "idle"
    /\ dataLoader.loaded
    /\ StartRun(<<HistFirstDate, GetLastHistoricalDate(dataLoader) + 1,
                  strategy.monthlyBudget>>)
    /\ UNCHANGED <<csvFile, dataLoader, ui, earlier, twin, other>>

SeriesNext == SeriesLoad \/ SeriesBegin \/ RunDay \/ RunFinish

SeriesSpec == SeriesInit /\ [][SeriesNext]_vars

\* ------------------------------------------------------------------------
\* The page. runBacktest is invoked by clicks and by direct calls. `run` has
\* no await in it, so the loop runs to its end inside the invocation; the
\* invocation then waits at `await engine.run(...)` with isRunning still
\* true, and that is where another invocation can come in. When it resumes
\* it displays the result, or shows the error that was thrown, and the
\* finally block clears isRunning.
\* ------------------------------------------------------------------------
\* the value of the radio button that stands for a strategy
StrategyType(st) ==
    CASE st.class = "DailyDCAStrategy" -> "daily-dca"
      [] st.class = "MonthlyDCAStrategy" -> "monthly-dca"
      [] st.class = "AHR999PercentileStrategy" -> "ahr999-percentile"
      [] OTHER -> "dynamic-ahr999"

\* the form, with the strategy that is checked: none (""), one the switch
\* does not know, or the one of `strategy`
PageInputs ==
    {<<f[1], f[2], f[3], type>> :
        f \in FormInputs, type \in {"", "threshold", StrategyType(strategy)}}

\* "Validate inputs" and the default case of the switch
PageAlert(form) ==
    IF form[4] = "" THEN "Please fill in all required fields"
    ELSE IF ValidationAlert(form) # "" THEN ValidationAlert(form)
    ELSE IF form[4] # StrategyType(strategy) THEN "Invalid strategy selected"
    ELSE ""

\* a variant without the guard
AlreadyRunning_Never(u) == FALSE

\* `if (this.isRunning) return;`
AlreadyRunning(u) == u.isRunning

Invoke ==
    /\ pc = "idle" \/ (pc = "done" /\ ui.isRunning)
    /\ dataLoader.loaded
    /\ IF AlreadyRunning(ui)
       THEN /\ ui' = [ui EXCEPT !.returnedEarly = TRUE]
            /\ UNCHANGED strategy
            /\ UNCHANGED runVars
       ELSE \E form \in PageInputs : Submit(form, PageAlert(form))
    /\ UNCHANGED <<csvFile, dataLoader, earlier, twin, other>>

\* run returns; runBacktest is still waiting for it
RunReturns == FinishWith(ui) /\ UNCHANGED <<twin, other>>

\* runBacktest resumes: displayResults, which throws when the page lacks an
\* element it writes to; catch; finally
Resume ==
    /\ pc = "done"
    /\ ui.isRunning
    /\ \E thrown \in BOOLEAN :
          ui' = [ui EXCEPT !.isRunning = FALSE, !.displayed = ~thrown,
                           !.error = thrown]
    /\ UNCHANGED <<csvFile, dataLoader, strategy, earlier, twin, other>>
    /\ UNCHANGED runVars

PageNext == Load \/ Invoke \/ RunDay \/ RunReturns \/ Resume

PageSpec == Init /\ [][PageNext]_vars

\* ------------------------------------------------------------------------
\* calculateAHR999 called on a window of any prices, as a caller other than
\* the engine can (the engine only pushes prices > 0). `twin` holds the
\* loader the call is made on, the arguments and the value returned. The
\* windows are 2, ..., 2 followed by WindowTail prices out of PriceValues,
\* 199, 200 and 201 prices long, the longest ones with any first price.
\* ------------------------------------------------------------------------
WindowTail == 3
PriceValues == {R(-2), Zero, R(1), R(2)}

PriceWindows ==
    LET Filled(first, len, tail) ==
            first \o Repeat(R(2), len - Len(first) - WindowTail)
                  \o [i \in 1..WindowTail |-> tail[i]]
    IN  UNION {{Filled(<<>>, DCA_WINDOW - 1, tail), Filled(<<>>, DCA_WINDOW, tail),
                Filled(<<Zero>>, DCA_WINDOW + 1, tail),
                Filled(<<R(2)>>, DCA_WINDOW + 1, tail)} :
                   tail \in [1..WindowTail -> PriceValues]}

IndexDates == {HistLastDate, HistLastDate + 1}

NewIndexCall(window) ==
    [dataLoader |-> NewDataLoader, priceHistory |-> window, date |-> NoDate,
     asked |-> FALSE, ahr999 |-> Null]

IndexInit ==
    /\ ConstructedWith({DailyDCAStrategy(R(761))})
    /\ twin \in {NewIndexCall(window) : window \in PriceWindows}
    /\ other = NoRun

IndexLoad ==
    /\ LoadStep
    /\ twin' = [twin EXCEPT !.dataLoader =
                    LoadFiles(@, CsvFile(csvFile), MetadataFile(csvFile))]
    /\ UNCHANGED other

IndexAsk ==
    /\ twin.dataLoader.loaded
    /\ ~twin.asked
    /\ \E date \in IndexDates :
          twin' = [twin EXCEPT
                      !.date = date,
                      !.asked = TRUE,
                      !.ahr999 = CalculateAHR999(twin.dataLoader, date,
                                                 twin.priceHistory)]
    /\ UNCHANGED <<csvFile, dataLoader, strategy, ui, earlier, other>>
    /\ UNCHANGED runVars

IndexNext == IndexLoad \/ IndexAsk

IndexSpec == IndexInit /\ [][IndexNext]_vars

\* ------------------------------------------------------------------------
\* getPriceData called directly on a loaded DataLoader, for dates from before
\* the first record to after the last one. The loader has read either file of
\* the data set. `twin` holds the date asked for and what is returned.
\* ------------------------------------------------------------------------
QueryDates == (HistFirstDate - 3)..(HistLastDate + 5)

NoQuery == [date |-> NoDate, asked |-> FALSE, dayData |-> NoDayData]

QueryInit ==
    /\ ConstructedWith({DailyDCAStrategy(R(761))})
    /\ twin = NoQuery
    /\ other = NoRun

QueryLoad ==
    /\ \E rows \in {CsvFile(csvFile), TwinCsvFile(csvFile)} :
          dataLoader' = LoadFiles(dataLoader, rows, MetadataFile(csvFile))
    /\ UNCHANGED <<csvFile, strategy, ui, earlier, twin, other>>
    /\ UNCHANGED runVars

QueryAsk ==
    /\ dataLoader.loaded
    /\ \E date \in QueryDates :
          twin' = [date |-> date, asked |-> TRUE,
                   dayData |-> GetPriceData(dataLoader, date)]
    /\ UNCHANGED <<csvFile, dataLoader, strategy, ui, earlier, other>>
    /\ UNCHANGED runVars

QueryNext == QueryLoad \/ QueryAsk

QuerySpec == QueryInit /\ [][QueryNext]_vars

\* ------------------------------------------------------------------------
\* load() called several times on one DataLoader. A call that finds the data
\* loaded returns; any other call starts reading the two files and is
\* suspended at its await until they are read, and other calls may begin or
\* resume in between. The price file is regenerated from time to time, so a
\* read gets either file of the data set. `twin` counts the calls and the
\* reads and keeps the loader as the first completed load left it.
\* ------------------------------------------------------------------------
MaxLoadCalls == 3

NoLoads ==
    [calls |-> 0, reads |-> 0, completed |-> 0, pending |-> <<>>,
     overlapped |-> FALSE, read |-> {}, first |-> NewDataLoader]

Without(seq, i) == SubSeq(seq, 1, i - 1) \o SubSeq(seq, i + 1, Len(seq))

LoadsInit ==
    /\ ConstructedWith({DailyDCAStrategy(R(761))})
    /\ twin = NoLoads
    /\ other = NoRun

\* load() up to its return or its await
LoadCalled ==
    /\ twin.calls < MaxLoadCalls
    /\ IF dataLoader.loaded
       THEN twin' = [twin EXCEPT !.calls = @ + 1, !.completed = @ + 1]
       ELSE \E rows \in {CsvFile(csvFile), TwinCsvFile(csvFile)} :
               twin' = [twin EXCEPT !.calls = @ + 1,
                                    !.reads = @ + 1,
                                    !.read = @ \cup {rows},
                                    !.overlapped = @ \/ twin.pending # <<>>,
                                    !.pending = Append(@, rows)]
    /\ UNCHANGED <<csvFile, dataLoader, strategy, ui, earlier, other>>
    /\ UNCHANGED runVars

\* a suspended load() goes on after its await, in any order
LoadResumed ==
    /\ \E i \in 1..Len(twin.pending) :
          /\ dataLoader' = StoreFiles(dataLoader, twin.pending[i], MetadataFile(csvFile))
          /\ twin' = [twin EXCEPT !.completed = @ + 1,
                                  !.pending = Without(@, i),
                                  !.first = IF twin.completed = 0 THEN dataLoader' ELSE @]
    /\ UNCHANGED <<csvFile, strategy, ui, earlier, other>>
    /\ UNCHANGED runVars

LoadsNext == LoadCalled \/ LoadResumed

LoadsSpec == LoadsInit /\ [][LoadsNext]_vars

\* ------------------------------------------------------------------------
\* The curve of the dynamic strategy, called step by step on a strategy built
\* from any of the configurations below: calculateCheapness(index),
\* calculateBaseMultiplier, calculateDrawdownBoost(price, peak180) and
\* calculateFinalMultiplier. `twin` holds the arguments and what is returned.
\* ------------------------------------------------------------------------
CurveBounds == {<<Null, Null>>, <<Frac(1, 2), R(2)>>, <<R(1), R(1)>>, <<R(2), Frac(1, 2)>>}
CurveMultipliers ==
    {<<Null, Null>>, <<Zero, Zero>>, <<R(1), R(1)>>, <<Frac(1, 2), R(3)>>, <<R(3), R(1)>>}
CurveGammas == {Null, Zero, R(1), R(-1)}

CurveConfigs ==
    {[DefaultDynamic EXCEPT !.a_low = a[1], !.a_high = a[2],
                            !.min_multiplier = m[1], !.max_multiplier = m[2],
                            !.gamma = g] :
        a \in CurveBounds, m \in CurveMultipliers, g \in CurveGammas}

CurveIndexes ==
    {Zero, Frac(1, 4), Frac(1, 2), Frac(3, 4), R(1), Frac(3, 2), R(2), R(3), Infinity}
CurvePeak == R(4)
CurvePrices == {R(4), R(3), Frac(5, 2), R(2), R(1)}

NoCurveCall ==
    [index |-> Null, price |-> Null, asked |-> FALSE, cheapness |-> Null,
     boostFactor |-> Null, finalMultiplier |-> Null]

CurveInit ==
    /\ ConstructedWith({DynamicAHR999Strategy(R(761), cfg) : cfg \in CurveConfigs})
    /\ csvFile = 1
    /\ twin = NoCurveCall
    /\ other = NoRun

CurveCall(st, index, price) ==
    LET cheapness == CalculateCheapness(st, index)
        boostFactor == CalculateDrawdownBoost(st, price, CurvePeak)
    IN  [index |-> index, price |-> price, asked |-> TRUE,
         cheapness |-> cheapness,
         boostFactor |-> boostFactor,
         finalMultiplier |->
             CalculateFinalMultiplier(st, CalculateBaseMultiplier(st, cheapness),
                                      boostFactor)]

CurveAsk ==
    /\ \E index \in CurveIndexes, price \in CurvePrices :
          twin' = CurveCall(strategy, index, price)
    /\ UNCHANGED <<csvFile, dataLoader, strategy, ui, earlier, other>>
    /\ UNCHANGED runVars

CurveSpec == CurveInit /\ [][CurveAsk]_vars

\* ------------------------------------------------------------------------
\* Two runs on one loader. Each run has its own Strategy and BacktestEngine
\* (its own locals of `run`); `other` holds the run that is not stepping,
\* and Switch hands the step to it, between any two loop iterations. The
\* first run is made alone before (its result is kept in `earlier`), then
\* again next to the second.
\* ------------------------------------------------------------------------
SharedRanges ==
    {<<NewDate(2020, 0, 28), NewDate(2020, 1, 3)>>,
     <<NewDate(2020, 2, 5), NewDate(2020, 2, 12)>>}

SecondStrategy ==
    DynamicAHR999Strategy(R(761),
        CHOOSE c \in DynamicConfigs : c.enable_monthly_cap /\ c.enable_drawdown_boost)

\* the run that is stepping, as a record
ThisRun(isFirst) ==
    [strategy |-> strategy, pc |-> pc, startDate |-> startDate, endDate |-> endDate,
     monthlyBudget |-> monthlyBudget, totalBudget |-> totalBudget,
     cashBalance |-> cashBalance, btcBalance |-> btcBalance,
     totalInvested |-> totalInvested, prevDate |-> prevDate,
     monthsElapsed |-> monthsElapsed, currentDate |-> currentDate,
     result |-> result, day |-> day, isFirst |-> isFirst]

SharedInit ==
    /\ Constructed
    /\ strategy.monthlyBudget = R(761)
    /\ twin = NoTwin
    /\ other = SecondRun(SecondStrategy)

SharedBegin ==
    /\ pc = "idle"
    /\ dataLoader.loaded
    /\ \E r \in SharedRanges : StartRun(<<r[1], r[2], strategy.monthlyBudget>>)
    /\ UNCHANGED <<csvFile, dataLoader, ui, earlier, twin, other>>

Switch ==
    /\ earlier # <<>>
    /\ other' = ThisRun(~other.isFirst)
    /\ strategy' = other.strategy
    /\ pc' = other.pc
    /\ startDate' = other.startDate
    /\ endDate' = other.endDate
    /\ monthlyBudget' = other.monthlyBudget
    /\ totalBudget' = other.totalBudget
    /\ cashBalance' = other.cashBalance
    /\ btcBalance' = other.btcBalance
    /\ totalInvested' = other.totalInvested
    /\ prevDate' = other.prevDate
    /\ monthsElapsed' = other.monthsElapsed
    /\ currentDate' = other.currentDate
    /\ result' = other.result
    /\ day' = other.day
    /\ UNCHANGED <<csvFile, dataLoader, ui, earlier, twin>>

SharedNext == Load \/ SharedBegin \/ RunDay \/ RunFinish \/ Rerun \/ Switch

SharedSpec == SharedInit /\ [][SharedNext]_vars

\* ------------------------------------------------------------------------
\* Helpers of the properties
\* ------------------------------------------------------------------------
Finished == pc = "done"
Started == pc \in {"running", "done"}

RECURSIVE SumOver(_, _, _, _)
SumOver(seq, field, from, to) ==
    IF from > to THEN Zero
    ELSE IF from = to THEN seq[to][field]
    ELSE LET mid == (from + to) \div 2
         IN  RAdd(SumOver(seq, field, from, mid), SumOver(seq, field, mid + 1, to))

SumInvestAmount(txs) == SumOver(txs, "investAmount", 1, Len(txs))
SumBtcAmount(txs) == SumOver(txs, "btcAmount", 1, Len(txs))

\* the day has a record with a price > 0
ValidPriceDay(date) ==
    LET dayData == GetPriceData(dataLoader, date)
    IN  HasDayData(dayData) /\ ~IsNull(dayData.price) /\ RGt(dayData.price, Zero)

PriceOn(date) == GetPriceData(dataLoader, date).price

\* the days of the run simulated so far
SimulatedDays == IF Started THEN startDate..(currentDate - 1) ELSE {}

TransactionDates == {result.transactions[i].date : i \in 1..Len(result.transactions)}

SameBudget == strategy.monthlyBudget = monthlyBudget /\ RGt(monthlyBudget, Zero)

\* the run was asked with a positive budget of a strategy with a positive
\* budget, over a period that ends after it starts
AdmissibleRun ==
    /\ RGt(monthlyBudget, Zero)
    /\ RGt(strategy.monthlyBudget, Zero)
    /\ startDate < endDate

\* ------------------------------------------------------------------------
\* C1: in a completed run, result.totalInvested is the sum of investAmount
\* and result.finalBtcBalance the sum of btcAmount over result.transactions;
\* every transaction has investAmount > 0 and btcAmount = investAmount /
\* the price of its day.
\* ------------------------------------------------------------------------
C1_LedgerSums ==
    Finished =>
        /\ result.totalInvested = SumInvestAmount(result.transactions)
        /\ result.finalBtcBalance = SumBtcAmount(result.transactions)
        /\ \A i \in 1..Len(result.transactions) :
              LET t == result.transactions[i]
              IN  /\ RGt(t.investAmount, Zero)
                  /\ t.price = PriceOn(t.date)
                  /\ t.btcAmount = RDiv(t.investAmount, PriceOn(t.date))

C1_Witness ==
    /\ Finished
    /\ Len(result.transactions) >= 3
    /\ \E i, j \in 1..Len(result.transactions) :
          /\ result.transactions[i].price # result.transactions[j].price
          /\ result.transactions[i].investAmount # result.transactions[j].investAmount

\* ------------------------------------------------------------------------
\* C2: for a strategy that is not in unlimited mode, the amount executed on
\* a day is min(requested, max(0, totalBudget - totalInvested before the
\* trade)); totalInvested <= totalBudget after every simulated day; no
\* transaction is recorded once totalInvested has reached totalBudget; no
\* executed amount is negative.  (The minimum is stated of the requests
\* >= 0: of a negative request nothing is executed.)
\* ------------------------------------------------------------------------
LimitedMode ==
    ~(\/ strategy.class = "AHR999PercentileStrategy" /\ strategy.unlimitedBudget
      \/ strategy.class = "DynamicAHR999Strategy" /\ ~strategy.config.enableMonthlyCap)

C2_BudgetCap ==
    (Started /\ LimitedMode) =>
        /\ RLe(totalInvested, totalBudget)
        /\ day.hasPrice =>
              /\ RGe(day.investAmount, Zero) =>
                    day.actualInvestment =
                       RMin(day.investAmount, RMax(Zero, day.budgetRemaining))
              /\ RGe(day.actualInvestment, Zero)
              /\ RLe(day.budgetRemaining, Zero) => ~day.hasTransaction
              /\ day.hasTransaction =>
                    /\ result.transactions[Len(result.transactions)].investAmount =
                          day.actualInvestment
                    /\ totalInvested =
                          RAdd(RSub(totalBudget, day.budgetRemaining), day.actualInvestment)
              /\ ~day.hasTransaction =>
                    totalInvested = RSub(totalBudget, day.budgetRemaining)
        /\ Finished => RLe(result.totalInvested, totalBudget)

\* a request was cut down to the budget that remained
C2_Witness ==
    /\ Started /\ LimitedMode
    /\ day.hasTransaction
    /\ RLt(day.actualInvestment, day.investAmount)
    /\ totalInvested = totalBudget

\* ------------------------------------------------------------------------
\* C3: a run that ends with totalInvested = 0 has finalPortfolioValue = 0
\* and totalReturn = 0, also where cash was credited and no trade executed.
\* ------------------------------------------------------------------------
C3_NothingInvested ==
    (Finished /\ result.totalInvested = Zero) =>
        /\ result.finalPortfolioValue = Zero
        /\ result.totalReturn = Zero

\* a Fixed-Monthly run that holds credited cash and never traded
C3_Witness ==
    /\ Finished
    /\ strategy.class = "MonthlyDCAStrategy"
    /\ result.totalInvested = Zero
    /\ RGt(cashBalance, Zero)
    /\ RGt(FinalPrice(dataLoader, endDate), Zero)

C5_CashCoversTrade ==
    (Started /\ AdmissibleRun
             /\ strategy.class \in {"DailyDCAStrategy", "MonthlyDCAStrategy"}) =>
        /\ RGe(cashBalance, Zero)
        /\ day.hasTransaction => RLe(day.actualInvestment, day.cashBeforeTrade)

\* ------------------------------------------------------------------------
\* C6: in unlimited mode every positive requested amount is executed in
\* full on its day, and totalInvested can exceed totalBudget.
\* ------------------------------------------------------------------------
C6_UnlimitedInFull ==
    (Started /\ ~LimitedMode /\ day.hasPrice /\ RGt(day.investAmount, Zero)) =>
        /\ day.actualInvestment = day.investAmount
        /\ day.hasTransaction
        /\ LET t == result.transactions[Len(result.transactions)]
           IN  t.date = day.date /\ t.investAmount = day.investAmount

\* a request beyond what remained of totalBudget was executed in full
C6_Witness ==
    /\ Started /\ ~LimitedMode
    /\ day.hasTransaction
    /\ RGt(day.investAmount, day.budgetRemaining)
    /\ RGt(totalInvested, totalBudget)
    /\ RGt(totalBudget, Zero)

\* ------------------------------------------------------------------------
\* C7: Fixed-Monthly, run with the strategy's own monthlyBudget: exactly
\* one transaction of exactly monthlyBudget on every target day of the
\* period that has a valid price, and no other transaction; the budget of
\* the period never truncates one, a partial last month included.
\* ------------------------------------------------------------------------
MonthlyTargetDays ==
    {d \in SimulatedDays : GetDate(d) = strategy.dayOfMonth /\ ValidPriceDay(d)}

ValidDays == {d \in SimulatedDays : ValidPriceDay(d)}

DailyPurchasesOn(validDays) ==
    /\ TransactionDates = validDays
    /\ Len(result.transactions) = Cardinality(validDays)
    /\ \A i \in 1..Len(result.transactions) :
          result.transactions[i].investAmount = RDiv(monthlyBudget, DAYS_PER_MONTH)
    /\ totalInvested =
          RMul(R(Cardinality(validDays)), RDiv(monthlyBudget, DAYS_PER_MONTH))
    /\ RLe(totalInvested, totalBudget)

AllMultipliersZero ==
    /\ strategy.class = "AHR999PercentileStrategy"
    /\ \A tier \in DOMAIN strategy.multipliers : strategy.multipliers[tier] = Zero

C9_ZeroMultipliers ==
    (Started /\ AllMultipliersZero) =>
        /\ result.transactions = <<>>
        /\ totalInvested = Zero
        /\ btcBalance = Zero
        /\ Finished =>
              /\ result.totalInvested = Zero
              /\ result.finalBtcBalance = Zero
              /\ result.finalPortfolioValue = Zero

\* a run with a budget, over days with a valid price and an index
C9_Witness ==
    /\ Finished /\ AllMultipliersZero
    /\ RGt(monthlyBudget, Zero)
    /\ day.hasPrice
    /\ result.durationDays >= 7
    /\ RGt(FinalPrice(dataLoader, endDate), Zero)

\* ------------------------------------------------------------------------
\* C10: every completed run with durationDays < 365 has annualizedReturn
\* equal to the Infinity sentinel; a run with durationDays >= 365 and
\* totalInvested > 0 has a finite annualizedReturn. Stated of the runs
\* with positive budgets over a period that ends after it starts.
\* ------------------------------------------------------------------------
IsFiniteReturn(a) == a.form = "geometric" \/ IsFiniteNum(a.num)

C10_AsStated ==
    (Finished /\ AdmissibleRun) =>
        /\ result.durationDays < MIN_ANNUALIZE_DAYS =>
              result.annualizedReturn = Number(Infinity)
        /\ (result.durationDays >= MIN_ANNUALIZE_DAYS /\ RGt(result.totalInvested, Zero)) =>
              IsFiniteReturn(result.annualizedReturn)

\* C10, with the runs that invested nothing set apart: a completed run with
\* durationDays < 365 and totalInvested > 0 has annualizedReturn equal to
\* the Infinity sentinel; with totalInvested = 0 annualizedReturn is 0; a
\* run with durationDays >= 365 and totalInvested > 0 has a finite
\* annualizedReturn.
C10_Annualized ==
    Finished =>
        /\ (result.durationDays < MIN_ANNUALIZE_DAYS /\ RGt(result.totalInvested, Zero)) =>
              result.annualizedReturn = Number(Infinity)
        /\ result.totalInvested = Zero =>
              result.annualizedReturn = Number(Zero)
        /\ (result.durationDays >= MIN_ANNUALIZE_DAYS /\ RGt(result.totalInvested, Zero)) =>
              IsFiniteReturn(result.annualizedReturn)

\* the longest run that is not annualized
C10_Witness ==
    /\ Finished
    /\ result.durationDays = MIN_ANNUALIZE_DAYS - 1
    /\ RGt(result.totalInvested, Zero)
    /\ result.annualizedReturn = Number(Infinity)

\* runs of a year: the geometric value and the linear approximation
C10_GeometricReached ==
    /\ Finished
    /\ result.durationDays = MIN_ANNUALIZE_DAYS
    /\ result.annualizedReturn.form = "geometric"

C10_LinearReached ==
    /\ Finished
    /\ result.durationDays >= MIN_ANNUALIZE_DAYS
    /\ RGt(result.totalInvested, Zero)
    /\ result.annualizedReturn.form = "number"

\* ------------------------------------------------------------------------
\* C11: when a run ends with totalInvested = 0 the return computation is
\* skipped and annualizedReturn is 0, whatever the duration of the run
\* (also for runs shorter than 365 days).
\* ------------------------------------------------------------------------
C11_ZeroInvestedReturn ==
    (Finished /\ totalInvested = Zero) =>
        /\ result.annualizedReturn = Number(Zero)
        /\ result.totalReturn = Zero

\* a run of less than a year, with a budget, that invested nothing
C11_Witness ==
    /\ Finished /\ AdmissibleRun
    /\ totalInvested = Zero
    /\ result.durationDays < MIN_ANNUALIZE_DAYS
    /\ result.durationDays >= 7
    /\ result.annualizedReturn = Number(Zero)

\* a run of a year or more that invested nothing
C11_LongRunReached ==
    /\ Finished /\ AdmissibleRun
    /\ totalInvested = Zero
    /\ result.durationDays >= MIN_ANNUALIZE_DAYS

C12_DirectCallReached ==
    /\ Finished /\ ~ui.displayed
    /\ startDate = endDate
    /\ Len(result.portfolioHistory) > 0

\* ------------------------------------------------------------------------
\* C13: if the investment decision of a strategy returns a negative amount
\* on some day, the run fails fast with an error; the negative request is
\* not silently treated as "no investment" or clamped to 0.
\* ------------------------------------------------------------------------
C13_NegativeRequestFails ==
    (Started /\ day.hasPrice /\ RLt(day.investAmount, Zero)) => pc = "failed"

\* a negative request was passed over and the run went on to its end
C13_SilentlySkipped ==
    /\ Finished /\ AdmissibleRun
    /\ day.hasPrice /\ RLt(day.investAmount, Zero)
    /\ day.actualInvestment = Zero /\ ~day.hasTransaction

\* ------------------------------------------------------------------------
\* C14: a run in which the strategy and the engine are both given
\* monthlyBudget = 0 completes normally for every strategy variant, with
\* no transaction, totalInvested = 0 and finalBtcBalance = 0.
\* ------------------------------------------------------------------------
ZeroBudgetRun == Started /\ strategy.monthlyBudget = Zero /\ monthlyBudget = Zero

C14_ZeroBudget ==
    ZeroBudgetRun =>
        /\ result.transactions = <<>>
        /\ totalInvested = Zero
        /\ btcBalance = Zero
        /\ Finished =>
              /\ result.totalInvested = Zero
              /\ result.finalBtcBalance = Zero

\* a completed run of the dynamic strategy over days with a valid price
C14_Witness ==
    /\ Finished /\ ZeroBudgetRun
    /\ strategy.class = "DynamicAHR999Strategy"
    /\ day.hasPrice
    /\ Len(result.portfolioHistory) >= 2

\* completed runs of the other strategies with a budget of 0
C14_DailyReached ==
    Finished /\ ZeroBudgetRun /\ strategy.class = "DailyDCAStrategy" /\ day.hasPrice
C14_MonthlyReached ==
    Finished /\ ZeroBudgetRun /\ strategy.class = "MonthlyDCAStrategy" /\ day.hasPrice
C14_PercentileReached ==
    /\ Finished /\ ZeroBudgetRun /\ day.hasPrice
    /\ strategy.class = "AHR999PercentileStrategy" /\ strategy.unlimitedBudget

\* ------------------------------------------------------------------------
\* C15: the month-start event fires on the first simulated day and exactly
\* once at each change of calendar month between consecutive simulated
\* days, whether or not the day has price data (the day just simulated
\* fired iff it is startDate or its month differs from the day before); in
\* a completed run the number of firings is the number of calendar months
\* with at least one day in [startDate, endDate].
\* ------------------------------------------------------------------------
MonthsOf(days) == {MonthKey(d) : d \in days}

C15_MonthStart ==
    Started =>
        /\ day.date # NoDate =>
              day.monthStart = (\/ day.date = startDate
                                \/ MonthKey(day.date) # MonthKey(day.date - 1))
        /\ Finished => monthsElapsed = Cardinality(MonthsOf(startDate..endDate))

\* a completed run over three calendar months, one of which starts on a day
\* without a valid price
C15_Witness ==
    /\ Finished
    /\ monthsElapsed >= 3
    /\ \E d \in (startDate + 1)..endDate : GetDate(d) = 1 /\ ~ValidPriceDay(d)

\* the day just simulated is a month start without price data
C15_NoPriceMonthStart ==
    Started /\ day.date # NoDate /\ day.date # startDate /\ day.monthStart /\ ~day.hasPrice

\* ------------------------------------------------------------------------
\* C16: on a day with a valid price a PortfolioState is recorded iff
\* daysSinceStart % 7 = 0, or a transaction was executed that day, or the
\* day is endDate; on other days none is recorded. So every transaction
\* date has a snapshot of the same date, and no day has two snapshots. The
\* sets of dates are compared on the completed run; while the run is under
\* way the day just simulated is the last snapshot's date iff it qualifies.
\* ------------------------------------------------------------------------
SnapshotDates ==
    {result.portfolioHistory[i].date : i \in 1..Len(result.portfolioHistory)}

RecordingDays ==
    {d \in SimulatedDays :
        /\ ValidPriceDay(d)
        /\ \/ (d - startDate) % 7 = 0
           \/ d \in TransactionDates
           \/ d = endDate}

SnapshotsOn(snapshotDates, recordingDays) ==
    /\ snapshotDates = recordingDays
    /\ TransactionDates \subseteq snapshotDates
    /\ Len(result.portfolioHistory) = Cardinality(snapshotDates)

C16_Snapshots ==
    /\ Finished => SnapshotsOn(SnapshotDates, RecordingDays)
    /\ (Started /\ day.date # NoDate) =>
          LET history == result.portfolioHistory
              recorded == history # <<>> /\ history[Len(history)].date = day.date
          IN  recorded = (/\ day.hasPrice
                          /\ \/ (day.date - startDate) % 7 = 0
                             \/ day.hasTransaction
                             \/ day.date = endDate)

\* a completed run with a snapshot recorded for a transaction alone, and
\* with a valid-price day and a sampling day that have no snapshot
C16_Witness ==
    /\ Finished
    /\ \E d \in SnapshotDates :
          d \in TransactionDates /\ (d - startDate) % 7 # 0 /\ d # endDate
    /\ \E d \in SimulatedDays : ValidPriceDay(d) /\ d \notin SnapshotDates
    /\ \E d \in SimulatedDays : (d - startDate) % 7 = 0 /\ d \notin SnapshotDates

\* ------------------------------------------------------------------------
\* C17: in every completed run the last PortfolioState of
\* result.portfolioHistory is dated endDate and its portfolioValue equals
\* result.finalPortfolioValue.
\* ------------------------------------------------------------------------
LastSnapshot == result.portfolioHistory[Len(result.portfolioHistory)]

C17_EndpointSnapshot ==
    (Finished /\ AdmissibleRun) =>
        /\ result.portfolioHistory # <<>>
        /\ LastSnapshot.date = endDate
        /\ LastSnapshot.portfolioValue = result.finalPortfolioValue

\* a completed run whose endDate has no valid price: no snapshot of endDate
C17_NoEndpointSnapshot ==
    /\ Finished /\ AdmissibleRun
    /\ ~ValidPriceDay(endDate)
    /\ endDate \notin SnapshotDates

\* a completed run with a snapshot of endDate whose value is the uninvested
\* cash while finalPortfolioValue is 0
C17_EndpointValueDiffers ==
    /\ Finished /\ AdmissibleRun
    /\ result.portfolioHistory # <<>>
    /\ LastSnapshot.date = endDate
    /\ totalInvested = Zero
    /\ RGt(LastSnapshot.portfolioValue, Zero)
    /\ result.finalPortfolioValue = Zero

\* a completed run where the endpoint snapshot is there and agrees
C17_EndpointAgrees ==
    /\ Finished /\ AdmissibleRun
    /\ RGt(totalInvested, Zero)
    /\ result.portfolioHistory # <<>>
    /\ LastSnapshot.date = endDate
    /\ LastSnapshot.portfolioValue = result.finalPortfolioValue

\* ------------------------------------------------------------------------
\* C18: running the same engine and the same strategy instance a second
\* time on the same inputs yields a result identical to the first; what the
\* first run left in the strategy (cash buffer, price window, monthly spend,
\* month cursor) does not reach the second.
\* ------------------------------------------------------------------------
C18_SameResult ==
    (Finished /\ earlier # <<>>) => result = earlier[1]

\* a second run of the dynamic strategy has completed; the first had left a
\* price window, a month cursor and a monthly spend behind, and traded
C18_Witness ==
    /\ Finished /\ earlier # <<>>
    /\ strategy.class = "DynamicAHR999Strategy"
    /\ strategy.priceHistory # <<>>
    /\ strategy.currentMonth # NoMonth
    /\ RGt(strategy.monthSpent, Zero)
    /\ result.transactions # <<>>

\* a second run of a year or so has completed
C18_LongRerunReached ==
    /\ Finished /\ earlier # <<>>
    /\ result.durationDays >= MIN_ANNUALIZE_DAYS
    /\ result.transactions # <<>>

\* ------------------------------------------------------------------------
\* C19: no look-ahead. Of two price histories that agree on every record
\* dated on or before day d, with the same strategy configuration, start
\* date and end date, the strategy is asked on the same days up to d and
\* requests the same amounts, for every strategy variant. Here d is
\* ForkDate and the pair of histories is the one of TwinSpec.
\* ------------------------------------------------------------------------
SameRequest ==
    /\ twin.asked = day.hasPrice
    /\ twin.amount = day.investAmount

C19_NoLookAhead ==
    (Started /\ day.date # NoDate /\ day.date <= ForkDate) => SameRequest

\* on a day before ForkDate the percentile strategy requests another amount
\* of the second history
C19_PercentileLooksAhead ==
    /\ Started /\ day.date # NoDate /\ day.date <= ForkDate
    /\ strategy.class = "AHR999PercentileStrategy"
    /\ day.hasPrice /\ twin.asked
    /\ twin.amount # day.investAmount

\* the other three strategies request the same of both histories up to
\* ForkDate
C19_OthersAgree ==
    (/\ Started /\ day.date # NoDate /\ day.date <= ForkDate
     /\ strategy.class # "AHR999PercentileStrategy") => SameRequest

\* after ForkDate the requests of the dynamic strategy differ: the second
\* history does differ
C19_HistoriesDiffer ==
    /\ Started /\ day.date > ForkDate
    /\ strategy.class = "DynamicAHR999Strategy"
    /\ twin.amount # day.investAmount

\* ------------------------------------------------------------------------
\* C20: a run never modifies the loaded price store (historicalData,
\* metadata, priceCache); so of two runs that each own their Strategy and
\* Engine and share one loaded DataLoader, with their day steps interleaved
\* in any order, each produces the result it produces alone. No step taken
\* once the store is loaded changes it; whenever the first run has
\* completed next to the second its result is the one it had alone (kept in
\* `earlier`), and so is the second's when it has the inputs of the first.
\* ------------------------------------------------------------------------
FirstOfTwo == IF other.isFirst THEN other ELSE ThisRun(TRUE)
SecondOfTwo == IF other.isFirst THEN ThisRun(FALSE) ELSE other

\* the same strategy configuration and the same arguments of run
SameInputs(a, b) ==
    /\ a.startDate = b.startDate
    /\ a.endDate = b.endDate
    /\ a.monthlyBudget = b.monthlyBudget
    /\ Initialize(a.strategy, dataLoader) = Initialize(b.strategy, dataLoader)

SameAsAlone ==
    earlier # <<>> =>
        /\ FirstOfTwo.pc = "done" => FirstOfTwo.result = earlier[1]
        /\ (SecondOfTwo.pc = "done" /\ SameInputs(FirstOfTwo, SecondOfTwo)) =>
              SecondOfTwo.result = earlier[1]

C20_BothCompleted ==
    /\ earlier # <<>>
    /\ other.pc = "done" /\ Finished
    /\ SameInputs(FirstOfTwo, SecondOfTwo)
    /\ result.transactions # <<>>

\* ------------------------------------------------------------------------
\* C21: every run with startDate <= endDate terminates: currentDate grows
\* by one calendar day at every step, each day of [startDate, endDate] is
\* visited exactly once in ascending order, no day after endDate is
\* simulated, and the result is finalized exactly once, after the last day.
\* ------------------------------------------------------------------------
\* the days visited so far are startDate .. currentDate - 1, the latest last
DaysInOrder ==
    (Started /\ startDate <= endDate) =>
        /\ startDate <= currentDate /\ currentDate <= endDate + 1
        /\ day.date = (IF currentDate = startDate THEN NoDate ELSE currentDate - 1)
        /\ prevDate = day.date
        /\ Finished => currentDate = endDate + 1

\* a step of the loop visits currentDate and moves one day on; the summary
\* is written by the step that ends the run, and by no step after it
LoopStep ==
    /\ (pc = "running" /\ pc' = "running") =>
          /\ currentDate <= endDate
          /\ day'.date = currentDate
          /\ currentDate' = currentDate + 1
    /\ (pc = "running" /\ pc' = "done") =>
          /\ currentDate > endDate
          /\ currentDate' = currentDate
    /\ pc = "done" => (pc' = "done" /\ result' = result)

C21_Terminates ==
    /\ []DaysInOrder
    /\ [][LoopStep]_vars
    /\ (pc = "running") ~> (pc = "done")

\* a run over three calendar months has completed
C21_Witness ==
    /\ Finished
    /\ startDate < endDate
    /\ monthsElapsed >= 2
    /\ day.date = endDate

\* ------------------------------------------------------------------------
\* C22: an AHR999PercentileStrategy built without a tier's multiplier uses
\* the default of that tier (5.0, 2.0, 1.0, 0, 0, 0 for p10 .. p100), and a
\* multiplier given as 0 stays 0: the strategy keeps these values through
\* the run and asks for dailyBudget times the value of the day's tier.
\* ------------------------------------------------------------------------
Tiers == {"p10", "p25", "p50", "p75", "p90", "p100"}

GivenMultiplier(cfg, tier) ==
    CASE tier = "p10" -> cfg.multiplier_p10
      [] tier = "p25" -> cfg.multiplier_p25
      [] tier = "p50" -> cfg.multiplier_p50
      [] tier = "p75" -> cfg.multiplier_p75
      [] tier = "p90" -> cfg.multiplier_p90
      [] tier = "p100" -> cfg.multiplier_p100

\* the configurations the strategy of this state can have been built from
BuiltFrom ==
    {cfg \in PercentileConfigs :
        LET built == AHR999PercentileStrategy(strategy.monthlyBudget, cfg)
        IN  /\ built.multipliers = strategy.multipliers
            /\ built.unlimitedBudget = strategy.unlimitedBudget}

DefaultAmounts ==
    {RMul(strategy.dailyBudget, m) : m \in {R(5), R(2), R(1), Zero}}

C22_DefaultMultipliers ==
    strategy.class = "AHR999PercentileStrategy" =>
        /\ BuiltFrom # {}
        /\ \A cfg \in BuiltFrom : \A tier \in Tiers :
              /\ IsNull(GivenMultiplier(cfg, tier)) =>
                    strategy.multipliers[tier] = AHR999_DEFAULT_MULTIPLIERS[tier]
              /\ ~IsNull(GivenMultiplier(cfg, tier)) =>
                    strategy.multipliers[tier] = GivenMultiplier(cfg, tier)
        /\ AHR999_DEFAULT_MULTIPLIERS =
              [p10 |-> R(5), p25 |-> R(2), p50 |-> R(1), p75 |-> Zero,
               p90 |-> Zero, p100 |-> Zero]
        /\ (NoMultipliers \in BuiltFrom /\ day.hasPrice) =>
              day.investAmount \in DefaultAmounts

\* a strategy built without multipliers has asked for five daily budgets
C22_Witness ==
    /\ strategy.class = "AHR999PercentileStrategy"
    /\ NoMultipliers \in BuiltFrom
    /\ RGt(strategy.dailyBudget, Zero)
    /\ day.hasPrice
    /\ day.investAmount = RMul(strategy.dailyBudget, R(5))

\* a strategy built with every multiplier 0 has met a day of the p10 tier
C22_ExplicitZeroKept ==
    /\ strategy.class = "AHR999PercentileStrategy"
    /\ AllMultipliers(Zero) \in BuiltFrom
    /\ RGt(strategy.dailyBudget, Zero)
    /\ day.hasPrice
    /\ day.investAmount = Zero

\* ------------------------------------------------------------------------
\* C24: for every strategy, after k days with a valid price the strategy's
\* price window holds exactly the prices of the most recent min(k, 300) of
\* those days, in order and once each; it never holds more than 300.
\* ------------------------------------------------------------------------
\* the prices of the days from..to that have a record with a price > 0
RECURSIVE ValidPrices(_, _, _)
ValidPrices(dl, from, to) ==
    IF from > to THEN <<>>
    ELSE IF from = to
    THEN LET dayData == GetPriceData(dl, from)
         IN  IF HasDayData(dayData) /\ ~IsNull(dayData.price) /\ RGt(dayData.price, Zero)
             THEN <<dayData.price>>
             ELSE <<>>
    ELSE LET mid == (from + to) \div 2
         IN  ValidPrices(dl, from, mid) \o ValidPrices(dl, mid + 1, to)

LastOf(seq, n) ==
    IF Len(seq) <= n THEN seq ELSE SubSeq(seq, Len(seq) - n + 1, Len(seq))

WindowIs(window, seen) ==
    /\ Len(window) <= 300
    /\ window = LastOf(seen, 300)

C24_RollingWindow ==
    Started =>
        WindowIs(strategy.priceHistory,
                 ValidPrices(dataLoader, startDate, currentDate - 1))

\* ------------------------------------------------------------------------
\* C25: on a day whose record has no precomputed index, the percentile and
\* the dynamic strategy ask for 0 while fewer than 200 days with a valid
\* price have been seen in the run (the day itself counted): the index is
\* computed from the window from the 200th such day on.
\* ------------------------------------------------------------------------
ValidDaysSeen == Len(ValidPrices(dataLoader, startDate, day.date))

NoIndexDay ==
    /\ Started
    /\ IsAHR999Family(strategy)
    /\ day.hasPrice
    /\ IsNull(GetPriceData(dataLoader, day.date).ahr999)

C25_NoIndexBefore200 ==
    (NoIndexDay /\ ValidDaysSeen < 200) => day.investAmount = Zero

\* ------------------------------------------------------------------------
\* C26: with the monthly cap enabled, the amounts executed for the dynamic
\* strategy within one calendar month never add up to more than monthlyCap,
\* and on the first simulated day of a new month the whole cap is available
\* again (what was spent in the month before no longer counts).
\* ------------------------------------------------------------------------
CappedDynamic ==
    /\ strategy.class = "DynamicAHR999Strategy"
    /\ strategy.config.enableMonthlyCap

\* the sum of the amounts of the transactions 1..n dated in month key
RECURSIVE ExecutedInMonth(_, _, _)
ExecutedInMonth(transactions, n, key) ==
    IF n = 0 THEN Zero
    ELSE IF MonthKey(transactions[n].date) = key
    THEN RAdd(transactions[n].investAmount, ExecutedInMonth(transactions, n - 1, key))
    ELSE IF transactions[n].date < NewDate(key[1], key[2], 1) THEN Zero
    ELSE ExecutedInMonth(transactions, n - 1, key)

ExecutedThisMonth ==
    ExecutedInMonth(result.transactions, Len(result.transactions), MonthKey(day.date))

ExecutedLastMonth ==
    ExecutedInMonth(result.transactions, Len(result.transactions),
                    MonthKey(NewDate(GetFullYear(day.date), GetMonth(day.date), 0)))

C26_MonthlyCap ==
    (Started /\ CappedDynamic /\ day.date # NoDate) =>
        /\ RLe(ExecutedThisMonth, strategy.config.monthlyCap)
        /\ RLe(ExecutedThisMonth, strategy.monthSpent)
        /\ RLe(strategy.monthSpent, strategy.config.monthlyCap)
        /\ RLe(day.actualInvestment, day.investAmount)
        /\ day.monthStart => strategy.monthSpent = day.investAmount

\* the cap of the month before was used up, and the first day of the new
\* month invests again
C26_Witness ==
    /\ Started /\ CappedDynamic
    /\ day.monthStart
    /\ day.date # startDate
    /\ ExecutedLastMonth = strategy.config.monthlyCap
    /\ RGt(day.actualInvestment, Zero)

\* ------------------------------------------------------------------------
\* C27: the drawdown boost of the dynamic strategy is 1.0, 1.2, 1.5 or 2.0
\* for a drawdown below 20%, from 20% to below 35%, from 35% to below 50%
\* and of 50% or more, the drawdown being taken from the highest price of
\* the most recent 180 days with a valid price, the day itself included;
\* with the boost disabled the factor is 1.0.
\* ------------------------------------------------------------------------
Peak180Days ==
    LET seen == LastOf(ValidPrices(dataLoader, startDate, day.date), 180)
    IN  MaxOf(seen, 1, Len(seen))

BoostOf(price, peak) ==
    LET drawdown == RDiv(RSub(peak, price), peak)
    IN  IF RLt(drawdown, Frac(1, 5)) THEN R(1)
        ELSE IF RLt(drawdown, Frac(7, 20)) THEN Frac(6, 5)
        ELSE IF RLt(drawdown, Frac(1, 2)) THEN Frac(3, 2)
        ELSE R(2)

BoostClaimed ==
    IF strategy.config.enableDrawdownBoost THEN BoostOf(day.price, Peak180Days)
    ELSE R(1)

\* the request that follows from a boost factor: steps 1, 2, 4, 5 and 6 of
\* shouldInvest, with the month's spending as it was before the day
RequestWith(st, index, boostFactor, asked) ==
    LET buyAmount ==
            RMul(st.config.baseAmount,
                 CalculateFinalMultiplier(st,
                     CalculateBaseMultiplier(st, CalculateCheapness(st, index)),
                     boostFactor))
        remaining == RSub(st.config.monthlyCap, RSub(st.monthSpent, asked))
    IN  IF st.config.enableMonthlyCap THEN RMax(Zero, RMin(buyAmount, remaining))
        ELSE buyAmount

DayIndex ==
    CurrentIndex(strategy, dataLoader, day.date, GetPriceData(dataLoader, day.date))

DynamicDay ==
    /\ Started
    /\ strategy.class = "DynamicAHR999Strategy"
    /\ day.hasPrice
    /\ ~IsNull(DayIndex)

C27_DrawdownBoost ==
    DynamicDay =>
        day.investAmount = RequestWith(strategy, DayIndex, BoostClaimed, day.investAmount)

\* ------------------------------------------------------------------------
\* C28: for Fixed-Daily and Fixed-Monthly the cash credited over a run is
\* the totalBudget of the period. Fixed-Daily is credited, at each month
\* start, monthlyBudget / 30.44 for every day of that month inside
\* [startDate, endDate], (inclusive day count) * monthlyBudget / 30.44 in
\* all; Fixed-Monthly is credited monthlyBudget for every month spanned; so
\* a run ends with cashBalance = totalBudget - totalInvested.
\* ------------------------------------------------------------------------
CashTracked == strategy.class \in {"DailyDCAStrategy", "MonthlyDCAStrategy"}

\* what has been credited: cash only changes by a credit or a purchase
CreditedSoFar == RAdd(cashBalance, totalInvested)

\* the days of [startDate, endDate] in the months up to the month of date
DaysCovered(date) ==
    LET monthEnd == NewDate(GetFullYear(date), GetMonth(date) + 1, 0)
    IN  (IF endDate < monthEnd THEN endDate ELSE monthEnd) - startDate + 1

MonthsCovered(date) ==
    CountMonths(GetFullYear(startDate), GetMonth(startDate),
                GetFullYear(date), GetMonth(date))

CreditsClaimed(date) ==
    IF strategy.class = "DailyDCAStrategy"
    THEN RMul(R(DaysCovered(date)), RDiv(monthlyBudget, DAYS_PER_MONTH))
    ELSE RMul(R(MonthsCovered(date)), monthlyBudget)

DayCreditClaimed ==
    IF ~day.monthStart THEN Zero
    ELSE IF strategy.class = "DailyDCAStrategy"
    THEN RMul(R(DaysCovered(day.date) - (day.date - startDate)),
              RDiv(monthlyBudget, DAYS_PER_MONTH))
    ELSE monthlyBudget

CreditsAddUp ==
    /\ day.date # NoDate =>
          /\ day.credited = DayCreditClaimed
          /\ CreditedSoFar = CreditsClaimed(day.date)
    /\ Finished =>
          /\ CreditedSoFar = totalBudget
          /\ cashBalance = RSub(totalBudget, totalInvested)
          /\ totalBudget =
                (IF strategy.class = "DailyDCAStrategy"
                 THEN RMul(R(result.durationDays), RDiv(monthlyBudget, DAYS_PER_MONTH))
                 ELSE RMul(R(GetCompleteMonthsCount(startDate, endDate)), monthlyBudget))

C28_MonthlyReached ==
    /\ Finished
    /\ strategy.class = "MonthlyDCAStrategy"
    /\ monthsElapsed >= 3
    /\ RGt(totalInvested, Zero)
    /\ RGt(cashBalance, Zero)

\* ------------------------------------------------------------------------
\* C29: a day for which the loader has no record, or a price that is not
\* > 0, is skipped: no trade, no snapshot, no call of shouldInvest and no
\* price added to the window; btcBalance and totalInvested stay as they
\* were, and only what the month start does (onMonthStart, the credit)
\* takes effect.
\* ------------------------------------------------------------------------
SkippedDayStep ==
    /\ pc = "running" /\ pc' = "running"
    /\ currentDate <= endDate
    /\ ~ValidPriceDay(currentDate)

SkippedDayFrame ==
    LET monthStart == prevDate = NoDate \/ MonthKey(currentDate) # MonthKey(prevDate)
    IN  /\ btcBalance' = btcBalance
        /\ totalInvested' = totalInvested
        /\ result' = result
        /\ strategy'.priceHistory = strategy.priceHistory
        /\ ~day'.hasPrice /\ ~day'.hasTransaction /\ ~day'.recorded
        /\ day'.investAmount = Zero /\ day'.actualInvestment = Zero
        /\ IF monthStart
           THEN /\ strategy' = OnMonthStart(strategy, currentDate)
                /\ cashBalance' = RAdd(cashBalance, day'.credited)
                /\ monthsElapsed' = monthsElapsed + 1
           ELSE /\ strategy' = strategy
                /\ cashBalance' = cashBalance
                /\ monthsElapsed' = monthsElapsed

C29_SkippedDay == [][SkippedDayStep => SkippedDayFrame]_vars

\* a day whose record has a price of 0 was skipped in a run that had bought
\* before; the month began on that day
C29_Witness ==
    /\ Started
    /\ day.date # NoDate /\ ~day.hasPrice
    /\ HasDayData(GetPriceData(dataLoader, day.date))
    /\ day.monthStart
    /\ RGt(totalInvested, Zero)
    /\ strategy.priceHistory # <<>>

\* a day without a record was skipped
C29_NoRecordSkipped ==
    /\ Started
    /\ day.date # NoDate /\ ~day.hasPrice
    /\ ~HasDayData(GetPriceData(dataLoader, day.date))
    /\ RGt(totalInvested, Zero)

\* ------------------------------------------------------------------------
\* C30: in a percentile run that is not unlimited, what is executed on a
\* day is limited by what remains of the budget of the whole period only,
\* not by the budget of the days up to that day: there are runs in which
\* one transaction is larger than monthlyBudget and in which, after d days,
\* more than d * monthlyBudget / 30.44 has been invested.
\* ------------------------------------------------------------------------
LimitedPercentile ==
    /\ strategy.class = "AHR999PercentileStrategy"
    /\ ~strategy.unlimitedBudget

PeriodBudget ==
    RMul(R(DurationDays(startDate, endDate)), RDiv(monthlyBudget, DAYS_PER_MONTH))

AccruedBudget ==
    RMul(R(currentDate - startDate), RDiv(monthlyBudget, DAYS_PER_MONTH))

C30_WholePeriodBudget ==
    (Started /\ LimitedPercentile /\ day.hasPrice /\ RGe(day.investAmount, Zero)) =>
        LET investedBefore == RSub(totalInvested, day.actualInvestment)
        IN  day.actualInvestment =
               RMin(day.investAmount, RMax(Zero, RSub(PeriodBudget, investedBefore)))

\* one transaction above monthlyBudget, ahead of the budget of the days so far
C30_Witness ==
    /\ Started /\ LimitedPercentile
    /\ RGt(monthlyBudget, Zero)
    /\ day.hasTransaction
    /\ RGt(day.actualInvestment, monthlyBudget)
    /\ RGt(totalInvested, AccruedBudget)

\* ------------------------------------------------------------------------
\* C31: for any non-empty historical index series the five boundaries that
\* initialize() computes satisfy p10 <= p25 <= p50 <= p75 <= p90, so every
\* valid index falls in exactly one of six tiers: below p10, from a boundary
\* (included) to the next one (excluded), or at p90 and above; the request of
\* the day is dailyBudget times the multiplier of that tier.
\* ------------------------------------------------------------------------
Boundaries ==
    <<strategy.ahr999Percentiles.p10, strategy.ahr999Percentiles.p25,
      strategy.ahr999Percentiles.p50, strategy.ahr999Percentiles.p75,
      strategy.ahr999Percentiles.p90>>

TierMultipliers ==
    <<strategy.multipliers.p10, strategy.multipliers.p25, strategy.multipliers.p50,
      strategy.multipliers.p75, strategy.multipliers.p90, strategy.multipliers.p100>>

BoundariesInOrder == \A i \in 1..4 : RLe(Boundaries[i], Boundaries[i + 1])

InTier(index, i) ==
    /\ i = 1 \/ RGe(index, Boundaries[i - 1])
    /\ i = 6 \/ RLt(index, Boundaries[i])

PercentileRun ==
    /\ Started
    /\ strategy.class = "AHR999PercentileStrategy"
    /\ GetHistoricalAHR999Values(dataLoader) # <<>>

PercentileDay == PercentileRun /\ day.hasPrice /\ ~IsNull(DayIndex)

C31_SixTiers ==
    /\ PercentileRun => BoundariesInOrder
    /\ PercentileDay =>
          \E i \in 1..6 :
              /\ InTier(DayIndex, i)
              /\ \A j \in 1..6 : InTier(DayIndex, j) => j = i
              /\ day.investAmount = RMul(strategy.dailyBudget, TierMultipliers[i])

\* an index equal to p25, between two other boundaries: the request is that
\* of the tier from p25 to p50
C31_Witness ==
    /\ PercentileDay
    /\ RLt(Boundaries[1], Boundaries[2])
    /\ RLt(Boundaries[2], Boundaries[3])
    /\ DayIndex = Boundaries[2]
    /\ strategy.multipliers.p50 # strategy.multipliers.p25
    /\ day.investAmount = RMul(strategy.dailyBudget, strategy.multipliers.p50)
    /\ RGt(day.investAmount, Zero)

\* an index strictly below p10, and one at p90 or above
C31_BottomTierReached ==
    /\ PercentileDay
    /\ RLt(DayIndex, Boundaries[1])
    /\ RGt(day.investAmount, Zero)

C31_TopTierReached ==
    /\ PercentileDay
    /\ RGe(DayIndex, Boundaries[5])
    /\ RLt(Boundaries[4], Boundaries[5])

\* ------------------------------------------------------------------------
\* C32: at most one backtest is in progress per BacktestUI: an invocation of
\* runBacktest made while isRunning is true returns at once, starts no
\* engine run and leaves isRunning as it is; and isRunning is false once an
\* invocation has ended, whichever way it ended (a validation alert, an
\* unknown strategy, the result displayed, an error shown).
\* ------------------------------------------------------------------------
InvocationEnded == ui.alert # "" \/ ui.displayed \/ ui.error

NotRunningAfterwards ==
    /\ InvocationEnded => ~ui.isRunning
    /\ ui.isRunning => pc \in {"running", "done"}

NoSecondRun ==
    ui.isRunning =>
        /\ pc' = "running" => pc = "running"
        /\ UNCHANGED <<strategy.class, startDate, endDate, monthlyBudget, totalBudget>>
        /\ ui'.isRunning \/ (pc = "done" /\ (ui'.displayed \/ ui'.error))
        /\ (ui'.returnedEarly /\ ~ui.returnedEarly) =>
              /\ UNCHANGED <<runVars, strategy, dataLoader>>
              /\ ui' = [ui EXCEPT !.returnedEarly = TRUE]

C32_OneAtATime == []NotRunningAfterwards /\ [][NoSecondRun]_vars

\* a second invocation came in while the first was waiting for run
C32_Witness ==
    /\ ui.isRunning
    /\ ui.returnedEarly
    /\ pc = "done"
    /\ Len(result.transactions) > 0

\* the four ways an invocation ends
C32_RejectedReached ==
    ui.alert = "Monthly budget must be greater than 0" /\ ~ui.isRunning

C32_UnknownStrategyReached == ui.alert = "Invalid strategy selected" /\ ~ui.isRunning

C32_DisplayedReached == ui.displayed /\ ui.returnedEarly /\ ~ui.isRunning

C32_ErrorReached == ui.error /\ ~ui.displayed /\ ~ui.isRunning

\* ------------------------------------------------------------------------
\* C33: within a run nothing is sold: the transactions are recorded in
\* strictly increasing order of date (so at most one a day), the snapshots
\* of portfolioHistory are recorded in strictly increasing order of date,
\* and totalInvested and btcBalance never decrease from one snapshot to the
\* next.
\* ------------------------------------------------------------------------
DatesIncrease(seq) == \A i \in 1..(Len(seq) - 1) : seq[i].date < seq[i + 1].date

NeverDecreases(seq, field) ==
    \A i \in 1..(Len(seq) - 1) : RLe(seq[i][field], seq[i + 1][field])

C33_NoSells ==
    Started =>
        /\ DatesIncrease(result.transactions)
        /\ DatesIncrease(result.portfolioHistory)
        /\ NeverDecreases(result.portfolioHistory, "totalInvested")
        /\ NeverDecreases(result.portfolioHistory, "btcBalance")

\* a completed run with several purchases, and more snapshots than purchases,
\* the balances growing between the first snapshot and the last
C33_Witness ==
    /\ Finished
    /\ Len(result.transactions) >= 3
    /\ Len(result.portfolioHistory) > Len(result.transactions)
    /\ RLt(result.portfolioHistory[1].btcBalance, LastSnapshot.btcBalance)
    /\ RLt(result.portfolioHistory[1].totalInvested, LastSnapshot.totalInvested)

\* ------------------------------------------------------------------------
\* C34: the computation of the valuation index returns None, and never
\* Infinity or NaN, whenever one of the last 200 prices of the window it is
\* given is zero or negative.
\* ------------------------------------------------------------------------
Last200(window) == LastOf(window, DCA_WINDOW)

BadPriceInWindow ==
    \E i \in 1..Len(Last200(twin.priceHistory)) :
        RLe(Last200(twin.priceHistory)[i], Zero)

IndexAsked == twin.asked /\ Len(twin.priceHistory) >= DCA_WINDOW

C34_NoneOnBadPrice == (IndexAsked /\ BadPriceInWindow) => IsNull(twin.ahr999)

\* what the code returns for such windows
C34_InfinityReturned == IndexAsked /\ BadPriceInWindow /\ twin.ahr999 = Infinity

C34_NaNReturned == IndexAsked /\ BadPriceInWindow /\ IsNaN(twin.ahr999)

C34_NumberReturned == IndexAsked /\ BadPriceInWindow /\ IsFiniteNum(twin.ahr999)

\* with fewer than 200 prices the value is None; with 200 prices > 0 after a
\* price of 0 that has left the window it is a number
C34_ShortWindowIsNone ==
    (twin.asked /\ Len(twin.priceHistory) < DCA_WINDOW) => IsNull(twin.ahr999)

C34_GoodWindowReached ==
    /\ IndexAsked
    /\ ~BadPriceInWindow
    /\ twin.priceHistory[1] = Zero
    /\ IsFiniteNum(twin.ahr999)

\* ------------------------------------------------------------------------
\* C35: for any valuation index and any configured aLow and aHigh (aLow >=
\* aHigh included) the cheapness score lies in [0, 1], is 1 at or below aLow
\* and 0 at or above aHigh, and does not increase with the index; and
\* whenever 0 <= minMultiplier <= maxMultiplier the final multiplier, after
\* the drawdown boost and the clipping, lies in [minMultiplier, maxMultiplier].
\* ------------------------------------------------------------------------
\* x <= y for indexes, of which x or y may be Infinity
IndexLe(x, y) == y = Infinity \/ (x # Infinity /\ RLe(x, y))

InUnitInterval(x) == IsFiniteNum(x) /\ RLe(Zero, x) /\ RLe(x, R(1))

CheapnessInRange == InUnitInterval(twin.cheapness)

OneAtOrBelowLow == IndexLe(twin.index, strategy.config.aLow) => twin.cheapness = R(1)

ZeroAtOrAboveHigh == IndexLe(strategy.config.aHigh, twin.index) => twin.cheapness = Zero

NonIncreasing ==
    \A lower \in CurveIndexes :
        IndexLe(lower, twin.index) =>
            RLe(twin.cheapness, CalculateCheapness(strategy, lower))

OrderedMultipliers ==
    /\ RLe(Zero, strategy.config.minMultiplier)
    /\ RLe(strategy.config.minMultiplier, strategy.config.maxMultiplier)

MultiplierInRange ==
    /\ IsFiniteNum(twin.finalMultiplier)
    /\ RLe(strategy.config.minMultiplier, twin.finalMultiplier)
    /\ RLe(twin.finalMultiplier, strategy.config.maxMultiplier)

C35_CurveInRange ==
    twin.asked =>
        /\ CheapnessInRange
        /\ OneAtOrBelowLow
        /\ ZeroAtOrAboveHigh
        /\ NonIncreasing
        /\ OrderedMultipliers => MultiplierInRange

\* what the code does: the score is as claimed, except that an index from
\* aHigh to aLow (aLow >= aHigh) gets 1; the multiplier is as claimed for a
\* gamma >= 0, and with a gamma < 0 it is NaN when minMultiplier =
\* maxMultiplier and the score is 0
C35_ScoreAsComputed ==
    twin.asked =>
        /\ CheapnessInRange
        /\ OneAtOrBelowLow
        /\ ~IndexLe(twin.index, strategy.config.aLow) => ZeroAtOrAboveHigh
        /\ NonIncreasing

C35_MultiplierAsComputed ==
    (twin.asked /\ OrderedMultipliers) =>
        \/ MultiplierInRange
        \/ /\ IsNaN(twin.finalMultiplier)
           /\ strategy.config.gamma[1] < 0
           /\ strategy.config.minMultiplier = strategy.config.maxMultiplier
           /\ twin.cheapness = Zero

C35_NaNMultiplierReached ==
    /\ twin.asked
    /\ OrderedMultipliers
    /\ IsNaN(twin.finalMultiplier)

C35_BoundsOverlapReached ==
    /\ twin.asked
    /\ IndexLe(strategy.config.aHigh, twin.index)
    /\ twin.cheapness = R(1)

\* the boost and the clipping at work: a multiplier cut down to maxMultiplier,
\* and one inside the range that the boost raised
C35_ClippedReached ==
    /\ twin.asked
    /\ OrderedMultipliers
    /\ twin.boostFactor = R(2)
    /\ twin.finalMultiplier = strategy.config.maxMultiplier
    /\ IsFiniteNum(CalculateBaseMultiplier(strategy, twin.cheapness))
    /\ RLt(CalculateBaseMultiplier(strategy, twin.cheapness), strategy.config.maxMultiplier)

C35_BoostedReached ==
    /\ twin.asked
    /\ OrderedMultipliers
    /\ RGt(twin.boostFactor, R(1))
    /\ IsFiniteNum(twin.finalMultiplier)
    /\ RLt(strategy.config.minMultiplier, twin.finalMultiplier)
    /\ RLt(twin.finalMultiplier, strategy.config.maxMultiplier)
    /\ RLt(Zero, twin.cheapness)
    /\ RLt(twin.cheapness, R(1))

\* ------------------------------------------------------------------------
\* C36: getPriceData returns the stored record for a date present in the
\* series; for a date strictly after the last historical date it returns a
\* synthesized record whose price is the trend model's and whose index and
\* ratios are absent; for any other date (a gap at or before the last
\* historical date) it returns None.
\* ------------------------------------------------------------------------
RowsOn(date) ==
    {i \in 1..Len(dataLoader.historicalData) : dataLoader.historicalData[i].date = date}

LastHistoricalDate == dataLoader.historicalData[Len(dataLoader.historicalData)].date

\* the record of the series on `date`, its empty and zero fields absent
StoredRecord(date) ==
    LET row == dataLoader.historicalData[CHOOSE i \in RowsOn(date) : TRUE]
        Field(v) == IF IsNull(v) \/ v = Zero THEN Null ELSE v
    IN  [date |-> date, price |-> row.close_price, ahr999 |-> Field(row.ahr999),
         ratio_dca |-> Field(row.ratio_dca), ratio_trend |-> Field(row.ratio_trend)]

TrendPrice(date) ==
    RMul(dataLoader.metadata.trend_a,
         RPowInt(R(date - GENESIS_DATE), dataLoader.metadata.trend_b))

C36_PointQuery ==
    twin.asked =>
        IF RowsOn(twin.date) # {}
        THEN twin.dayData = StoredRecord(twin.date)
        ELSE IF twin.date > LastHistoricalDate
        THEN /\ HasDayData(twin.dayData)
             /\ twin.dayData.date = twin.date
             /\ twin.dayData.price = TrendPrice(twin.date)
             /\ IsNull(twin.dayData.ahr999)
             /\ IsNull(twin.dayData.ratio_dca)
             /\ IsNull(twin.dayData.ratio_trend)
        ELSE ~HasDayData(twin.dayData)

\* a gap inside the series was asked for
C36_Witness ==
    /\ twin.asked
    /\ RowsOn(twin.date) = {}
    /\ twin.date > HistFirstDate
    /\ twin.date < LastHistoricalDate
    /\ ~HasDayData(twin.dayData)

C36_StoredReached ==
    /\ twin.asked
    /\ RowsOn(twin.date) # {}
    /\ IsFiniteNum(twin.dayData.price)
    /\ ~IsNull(twin.dayData.ahr999)

C36_SynthesizedReached ==
    /\ twin.asked
    /\ twin.date > LastHistoricalDate
    /\ twin.dayData.price = R(2)
    /\ IsNull(twin.dayData.ahr999)

C36_BeforeFirstReached ==
    /\ twin.asked
    /\ twin.date < HistFirstDate
    /\ ~HasDayData(twin.dayData)

\* ------------------------------------------------------------------------
\* C37: however many times and in whatever interleaving load() is called on
\* one DataLoader, the price file and the trend parameters are read at most
\* once, and after any load() call completes, historicalData, metadata and
\* the date index are the same as after the first completed load.
\* ------------------------------------------------------------------------
SameAsFirst ==
    /\ dataLoader.historicalData = twin.first.historicalData
    /\ dataLoader.metadata = twin.first.metadata
    /\ dataLoader.priceCache = twin.first.priceCache

C37_LoadOnce ==
    /\ twin.reads <= 1
    /\ twin.completed > 0 => SameAsFirst

\* what the code does: calls that begin one after the other's end read the
\* files once and leave the data alone
C37_OneAfterTheOther == ~twin.overlapped => C37_LoadOnce

\* calls that overlap read the files once each; the data are those of the
\* call that resumed last, the same only if the files read were
C37_ReadsOfOverlappingCalls ==
    /\ twin.reads <= twin.calls
    /\ twin.reads > 1 => twin.overlapped
    /\ (twin.completed > 0 /\ Cardinality(twin.read) <= 1) => SameAsFirst

C37_ReadTwiceReached ==
    /\ twin.calls = 2
    /\ twin.reads = 2
    /\ twin.completed = 0

C37_DataReplacedReached ==
    /\ twin.completed = 2
    /\ twin.pending = <<>>
    /\ ~SameAsFirst

C37_EarlyReturnReached ==
    /\ twin.calls = 2
    /\ twin.completed = 2
    /\ twin.reads = 1
    /\ SameAsFirst

====
